---------------------------- MODULE Spec2Model ----------------------------
(***************************************************************************)
(* Scaling and merging engine of CrystFEL (src/src/hrs-scaling.c).         *)
(*                                                                         *)
(* The model follows scale_intensities: the initialisation loop, the      *)
(* initial merge, the scaling macrocycles (scale jobs, outlier rejection,  *)
(* normalisation, convergence test, re-merge) and the ESD pass.  The       *)
(* worker jobs of the merge and ESD passes are modelled one lock or        *)
(* unlock, one table lookup, one read and one write at a time.             *)
(*                                                                         *)
(* Numbers.  A double is a pair <<m, e>> standing for m * 2^e, with m odd  *)
(* and |m| < MantMax (zero is <<0,0>>); the exponent 1024 marks NaN        *)
(* <<0,1024>>, +Inf <<1,1024>> and -Inf <<-1,1024>>.  Sums, products and   *)
(* quotients are rounded to the mantissa.  log and exp are taken to base   *)
(* 2 and truncated to whole exponents; exp overflows above 2^ExpMax and    *)
(* underflows below 2^-ExpMax.  B is therefore carried in units of ln 2.   *)
(***************************************************************************)
EXTENDS Integers, Sequences, FiniteSets, TLC

(***************************************************************************)
(* Floating-point values                                                   *)
(***************************************************************************)

Abs(i) == IF i < 0 THEN -i ELSE i

RECURSIVE Pow2(_)
Pow2(k) == IF k = 0 THEN 1 ELSE 2 * Pow2(k - 1)

\* the number of binary digits of x > 0
RECURSIVE BitLen(_)
BitLen(x) == IF x < 2 THEN 1 ELSE 1 + BitLen(x \div 2)

\* mantissas are below MantMax (2^DBL_MANT_DIG in the build)
MantMax == 8192

\* the number of binary digits a mantissa may have
MantBits == BitLen(MantMax - 1)

\* the number of binary digits of the widest intermediate integer
WideBits == 2 * MantBits + 2

NaN == <<0, 1024>>
PInf == <<1, 1024>>
NInf == <<-1, 1024>>
Zero == <<0, 0>>
One == <<1, 0>>

isnan(a) == a = NaN
isinf(a) == a = PInf \/ a = NInf
IsFinite(a) == ~isnan(a) /\ ~isinf(a)

Sign(a) == IF a[1] > 0 THEN 1 ELSE IF a[1] < 0 THEN -1 ELSE 0
SignedInf(s) == IF s > 0 THEN PInf ELSE IF s < 0 THEN NInf ELSE NaN

\* m * 2^e as a double: the mantissa rounded to nearest, then made odd
RECURSIVE Norm(_, _)
Norm(m, e) ==
    IF m = 0 THEN Zero
    ELSE IF BitLen(Abs(m)) > MantBits
         THEN LET s == BitLen(Abs(m)) - MantBits
                  q == (Abs(m) + Pow2(s - 1)) \div Pow2(s)
              IN  Norm((IF m < 0 THEN -q ELSE q), e + s)
    ELSE IF m % 2 = 0 THEN Norm(m \div 2, e + 1)
    ELSE <<m, e>>

\* the integer i as a double
Dbl(i) == Norm(i, 0)

\* the position of the leading binary digit of a finite a # 0
Mag(a) == a[2] + BitLen(Abs(a[1]))

DNeg(a) == IF isnan(a) THEN NaN ELSE <<-a[1], a[2]>>

\* a + b for finite a and b
AddFinite(a, b) ==
    IF a[1] = 0 THEN b
    ELSE IF b[1] = 0 THEN a
    ELSE IF Mag(a) - Mag(b) > MantBits + 1 THEN a
    ELSE IF Mag(b) - Mag(a) > MantBits + 1 THEN b
    ELSE LET e == IF a[2] < b[2] THEN a[2] ELSE b[2]
         IN  Norm(a[1] * Pow2(a[2] - e) + b[1] * Pow2(b[2] - e), e)

DAdd(a, b) ==
    IF isnan(a) \/ isnan(b) THEN NaN
    ELSE IF isinf(a) /\ isinf(b) THEN (IF a = b THEN a ELSE NaN)
    ELSE IF isinf(a) THEN a
    ELSE IF isinf(b) THEN b
    ELSE AddFinite(a, b)

DSub(a, b) == DAdd(a, DNeg(b))

DMul(a, b) ==
    IF isnan(a) \/ isnan(b) THEN NaN
    ELSE IF isinf(a) \/ isinf(b) THEN SignedInf(Sign(a) * Sign(b))
    ELSE Norm(a[1] * b[1], a[2] + b[2])

\* a / b for finite a and b # 0
DivFinite(a, b) ==
    IF a[1] = 0 THEN Zero
    ELSE LET s == WideBits - BitLen(Abs(a[1]))
             q == (Abs(a[1]) * Pow2(s)) \div Abs(b[1])
         IN  Norm(Sign(a) * Sign(b) * q, a[2] - b[2] - s)

\* IEEE division; a zero divisor is taken as +0
DDiv(a, b) ==
    IF isnan(a) \/ isnan(b) THEN NaN
    ELSE IF isinf(a) /\ isinf(b) THEN NaN
    ELSE IF isinf(a) THEN (IF Sign(b) < 0 THEN DNeg(a) ELSE a)
    ELSE IF isinf(b) THEN Zero
    ELSE IF b[1] = 0 THEN SignedInf(Sign(a))
    ELSE DivFinite(a, b)

\* the fraction n/d (d # 0) as a double
D(n, d) == DDiv(Dbl(n), Dbl(d))

\* a < b; false when either is NaN
DLt(a, b) ==
    IF isnan(a) \/ isnan(b) THEN FALSE
    ELSE IF a = b THEN FALSE
    ELSE IF isinf(a) \/ isinf(b) THEN a = NInf \/ b = PInf
    ELSE Sign(AddFinite(a, DNeg(b))) < 0

DGt(a, b) == DLt(b, a)
DLe(a, b) == ~isnan(a) /\ ~isnan(b) /\ ~DLt(b, a)
DGe(a, b) == DLe(b, a)

fabs(a) == IF isnan(a) THEN NaN ELSE <<Abs(a[1]), a[2]>>

\* floor of a finite a, kept within +-2^WideBits
Floor(a) ==
    IF a[1] = 0 THEN 0
    ELSE IF a[2] >= 0
         THEN (IF Mag(a) > WideBits THEN Sign(a) * Pow2(WideBits)
               ELSE a[1] * Pow2(a[2]))
    ELSE IF -a[2] > WideBits THEN (IF a[1] < 0 THEN -1 ELSE 0)
    ELSE a[1] \div Pow2(-a[2])

\* the exponent range of exp(): results above 2^ExpMax overflow to +Inf,
\* results below 2^-ExpMax underflow to 0
ExpMax == 4

\* log(): base 2, truncated to a whole exponent
log(a) ==
    IF isnan(a) THEN NaN
    ELSE IF a = PInf THEN PInf
    ELSE IF Sign(a) < 0 THEN NaN
    ELSE IF Sign(a) = 0 THEN NInf
    ELSE Dbl(Mag(a) - 1)

\* exp(): base 2, of the argument truncated to a whole exponent
exp(a) ==
    IF isnan(a) THEN NaN
    ELSE IF a = PInf THEN PInf
    ELSE IF a = NInf THEN Zero
    ELSE LET k == Floor(a)
         IN  IF k > ExpMax THEN PInf
             ELSE IF k < -ExpMax THEN Zero
             ELSE <<1, k>>

\* integer square root: the largest r in lo..hi with r*r <= n
RECURSIVE ISqrtIn(_, _, _)
ISqrtIn(n, lo, hi) ==
    IF lo = hi THEN lo
    ELSE LET mid == (lo + hi + 1) \div 2
         IN  IF mid * mid <= n THEN ISqrtIn(n, mid, hi)
             ELSE ISqrtIn(n, lo, mid - 1)

ISqrt(n) == ISqrtIn(n, 0, Pow2(WideBits \div 2))

\* sqrt(): the root of the mantissa widened to an even exponent
sqrt(a) ==
    IF isnan(a) \/ Sign(a) < 0 THEN NaN
    ELSE IF a = PInf THEN PInf
    ELSE IF a[1] = 0 THEN Zero
    ELSE LET s0 == WideBits - BitLen(a[1])
             s == IF (a[2] - s0) % 2 = 0 THEN s0 ELSE s0 - 1
         IN  Norm(ISqrt(a[1] * Pow2(s)), (a[2] - s) \div 2)


(***************************************************************************)
(* Program constants                                                       *)
(***************************************************************************)

\* Minimum partiality of a reflection for it to be used for scaling (0.05)
MIN_PART_SCALE == D(1, 20)

\* Minimum partiality of a reflection for it to be merged (0.05)
MIN_PART_MERGE == D(1, 20)

\* Maximum number of iterations of scaling per macrocycle
MAX_CYCLES == 10

\* reject_outliers: the largest accepted scale factor (10.0)
OSF_MAX == Dbl(10)

\* reject_outliers: the largest accepted |B| (40e-20 m^2, in the units of
\* the model's resolution table and of ln 2)
BFAC_MAX == D(1, 3)

\* test_convergence: threshold of the mean change of the scale factors (0.01)
CONV_LIMIT == D(1, 100)

\* run_scale_job: an observation is used when I >= 5.0 * esd
SIGMA_CUT == Dbl(5)

(***************************************************************************)
(* Inputs: the crystals handed to scale_intensities                        *)
(***************************************************************************)

\* the indices (h,k,l) that occur, in the order of a RefList
Keys == {1, 2, 3}

\* get_asymm(sym, h, k, l): the asymmetric indices; indices 3 are a
\* point-group equivalent of indices 1
get_asymm(k) == IF k = 3 THEN 1 ELSE k

\* resolution(cell, h, k, l) of each key; equivalents have the same
resolution(k) == Dbl(get_asymm(k) + 2)

\* an observation: indices, intensity, its esd, partiality, Lorentz factor
Refl(k, I, esd, p, L) == [key |-> k, I |-> I, esd |-> esd, p |-> p, L |-> L]

Strong(k, i) == Refl(k, Dbl(i), D(1, 10), One, One)
Weak(k, i) == Refl(k, Dbl(i), Dbl(i), One, One)
Half(k, i) == Refl(k, Dbl(i), D(1, 10), D(1, 2), One)
Faint(k, i) == Refl(k, Dbl(i), D(1, 10), D(1, 100), One)

\* the reflection lists a crystal may carry
RL_unit == <<Strong(1, 1), Strong(2, 1)>>
RL_steep == <<Strong(1, 1), Strong(2, 20)>>
RL_weak == <<Weak(1, 1), Strong(2, 20)>>
RL_part == <<Half(1, 4), Faint(2, 1)>>
RL_bright == <<Strong(1, 8), Strong(2, 8)>>

ReflLists == {RL_unit, RL_steep, RL_weak, RL_part, RL_bright}

\* the crystals handed in: every list of one or two crystals, and some of
\* three
CrystalLists ==
    UNION {[1 .. m -> ReflLists] : m \in 1 .. 2}
    \cup {<<RL_unit, RL_steep, RL_part>>, <<RL_bright, RL_unit, RL_unit>>}

\* the largest number of worker threads (n_threads)
MaxThreads == 2

Threads == 1 .. MaxThreads

\* states of a crystal on entry: user flag, osf, Bfac
EntryStates ==
    { <<0, One, Zero>>, <<1, Dbl(3), One>>, <<2, One, Zero>> }

NULL == <<0, 0>>

(***************************************************************************)
(* State                                                                   *)
(***************************************************************************)

VARIABLES
    refl,        \* crystal_get_reflections: per crystal 0 .. n-1, its
                 \* observations
    n_threads,   \* argument n_threads
    noscale,     \* argument noscale
    min_red,     \* argument min_redundancy (0 until calculate_esds reads it)
    user_flag,   \* crystal_get_user_flag, per crystal
    osf,         \* crystal_get_osf (G), per crystal
    Bfac,        \* crystal_get_Bfac (B), per crystal
    full,        \* the reference RefList: per key, the chain of its entries
    full_lock,   \* qargs.full_lock: the readers and the writer (0: none)
    pc,          \* where scale_intensities is
    caller,      \* which call of lsq_intensities is running
    i,           \* the macrocycle counter of scale_intensities
    done,        \* the result of test_convergence
    old_osfs,    \* old_osfs[], per crystal
    warned,      \* "Scaling did not converge" was printed
    phase,       \* the jobs run_threads is running: none, scale, merge, esd
    n_started,   \* qargs.n_started
    n_finished,  \* jobs finalised by the pool in this run_threads call
    wk,          \* per worker thread: its job's local variables
    handed,      \* per crystal: jobs created for it in this run_threads call
    image,       \* pr_refine: the image (osf, geometry parameters,
                 \* reflections)
    shifts,      \* pr_iterate: the vector of shifts, per parameter
    max_shift,   \* pr_refine: the result of the last pr_iterate
    pr_i,        \* pr_refine: the iteration counter
    pr_pc,       \* where pr_refine is
    rt,          \* a call of the rational number library: the build, the
                 \* operation, its arguments a and b, its result r
    sim          \* partial_sim: qargs (random_intensities, full, full_lock,
                 \* the number of jobs started) and the workers of run_job

vars == <<refl, n_threads, noscale, min_red, user_flag, osf, Bfac, full,
          full_lock, pc, caller, i, done, old_osfs, warned, phase, n_started,
          n_finished, wk, handed, image, shifts, max_shift, pr_i, pr_pc,
          rt, sim>>

\* the crystals, crystals[0] .. crystals[n-1]
Crystals == DOMAIN refl

\* argument n: the number of crystals
n == Cardinality(Crystals)

crystal_vars == <<user_flag, osf, Bfac>>
pr_vars == <<image, shifts, max_shift, pr_i, pr_pc>>
input_vars == <<refl, n_threads, noscale, pr_vars, rt, sim>>
main_vars == <<pc, caller, i, done, old_osfs, warned, min_red>>
pool_vars == <<phase, n_started, n_finished, handed>>

\* a worker thread with no job
Idle == [pc |-> "idle", cr |-> -1, it |-> 0, f |-> NULL, isnew |-> FALSE,
         G |-> Zero, B |-> Zero, num |-> Zero, den |-> Zero, red |-> 0]

\* a new entry of a RefList
NewEntry ==
    [temp1 |-> Zero, temp2 |-> Zero, redundancy |-> 0, intensity |-> Zero,
     esd |-> Zero, lock |-> 0]

\* reflist_new
reflist_new == [k \in Keys |-> <<>>]

\* find_refl: the first entry with these indices, or NULL
find_refl(list, k) == IF list[k] = <<>> THEN NULL ELSE <<k, 1>>

\* add_refl: a new entry with these indices, at the end of the key's chain
add_refl(list, k) == [list EXCEPT ![k] = Append(@, NewEntry)]

\* the entry a handle points to
Entry(list, f) == list[f[1]][f[2]]

\* lock_reflection(f) by worker w, which waits until the entry's lock is free
LockFree(list, f) == Entry(list, f).lock = 0
lock_reflection(list, f, w) == [list EXCEPT ![f[1]][f[2]].lock = w]

\* unlock_reflection(f)
unlock_reflection(list, f) == [list EXCEPT ![f[1]][f[2]].lock = 0]

\* no image is being post-refined, and neither the rational number library
\* nor partial_sim is in use
NoRefinement ==
    /\ rt = [pc |-> "none"]
    /\ sim = [pc |-> "none"]
    /\ image = [osf |-> One, par |-> <<>>, reflections |-> <<>>]
    /\ shifts = <<>>
    /\ max_shift = Zero
    /\ pr_i = 0
    /\ pr_pc = "none"

Init ==
    /\ NoRefinement
    /\ refl \in {[c \in 0 .. (Len(s) - 1) |-> s[c + 1]] : s \in CrystalLists}
    /\ n_threads \in 1 .. MaxThreads
    /\ noscale \in BOOLEAN
    /\ min_red = 0
    /\ \E e \in [Crystals -> EntryStates] :
          /\ user_flag = [c \in Crystals |-> e[c][1]]
          /\ osf = [c \in Crystals |-> e[c][2]]
          /\ Bfac = [c \in Crystals |-> e[c][3]]
    /\ full = reflist_new
    /\ full_lock = [readers |-> {}, writer |-> 0]
    /\ pc = "start"
    /\ caller = "none"
    /\ i = 0
    /\ done = FALSE
    /\ old_osfs = [c \in Crystals |-> Zero]
    /\ warned = FALSE
    /\ phase = "none"
    /\ n_started = 0
    /\ n_finished = 0
    /\ wk = [w \in Threads |-> Idle]
    /\ handed = [c \in Crystals |-> 0]


(***************************************************************************)
(* The thread pool (run_threads)                                           *)
(***************************************************************************)

\* run_threads(n_threads, work, get_task, final, qargs, n, ...) begins:
\* qargs.n_started has been set to 0 by the caller
RunThreads(ph) ==
    /\ phase' = ph
    /\ n_started' = 0
    /\ n_finished' = 0
    /\ handed' = [c \in Crystals |-> 0]

\* run_threads returns once the n jobs it created have been finalised
PoolDone == n_finished = n

\* the pool may ask worker w for the next job: w is one of the n_threads
\* workers, has no job, and fewer than n jobs were created
MayCreate(w, ph) ==
    /\ phase = ph
    /\ w <= n_threads
    /\ wk[w].pc = "idle"
    /\ n_finished + Cardinality({v \in Threads : wk[v].pc # "idle"}) < n

\* the job of worker w returns and the pool finalises it
\* (finalise_scale_job, finalise_merge_job, finalise_esd_job: free)
Return(w) ==
    /\ wk' = [wk EXCEPT ![w] = Idle]
    /\ n_finished' = n_finished + 1

(***************************************************************************)
(* Scaling: create_scale_job, run_scale_job                                *)
(***************************************************************************)

\* create_scale_job: the next crystal, qargs->crystals[qargs->n_started++]
create_scale_job(w) ==
    /\ MayCreate(w, "scale")
    /\ wk' = [wk EXCEPT ![w] = [Idle EXCEPT !.pc = "scale", !.cr = n_started]]
    /\ handed' = [handed EXCEPT ![n_started] = @ + 1]
    /\ n_started' = n_started + 1
    /\ UNCHANGED <<input_vars, crystal_vars, main_vars, full, full_lock,
                   phase, n_finished>>

RECURSIVE SumX(_, _)
SumX(pts, k) ==
    IF pts = <<>> THEN Zero ELSE DAdd(pts[1][k], SumX(Tail(pts), k))

RECURSIVE SumDev(_, _, _, _)
SumDev(pts, mx, my, both) ==
    IF pts = <<>> THEN Zero
    ELSE LET dx == DSub(pts[1][1], mx)
             dy == DSub(pts[1][2], my)
         IN  DAdd(DMul(dx, IF both THEN dy ELSE dx),
                  SumDev(Tail(pts), mx, my, both))

\* gsl_fit_wlinear with unit weights on the points <<x, y>>: the weighted
\* means, the weighted deviations, slope c1 and intercept c0; it returns 0
gsl_fit_wlinear(pts) ==
    LET W == Dbl(Len(pts))
        wm_x == DDiv(SumX(pts, 1), W)
        wm_y == DDiv(SumX(pts, 2), W)
        wm_dx2 == DDiv(SumDev(pts, wm_x, wm_y, FALSE), W)
        wm_dxdy == DDiv(SumDev(pts, wm_x, wm_y, TRUE), W)
        b == DDiv(wm_dxdy, wm_dx2)
        a == DSub(wm_y, DMul(wm_x, b))
    IN  [r |-> 0, c0 |-> a, c1 |-> b]

\* the loop of run_scale_job over the reflections of crystal c from the
\* j-th on: the points x[n] = res*res, y[n] = log(Ihl/Ih) it collects
RECURSIVE ScalePoints(_, _, _)
ScalePoints(reference, c, j) ==
    IF j > Len(refl[c]) THEN <<>>
    ELSE LET o == refl[c][j]
             res == resolution(o.key)
             r == find_refl(reference, o.key)
             Ih == Entry(reference, r).intensity
             corr == DMul(o.p, o.L)
             Ihl == DDiv(o.I, corr)
             use == /\ ~(DLt(o.p, MIN_PART_SCALE)
                          \/ DLt(o.I, DMul(SIGMA_CUT, o.esd)))
                    /\ r # NULL
                    /\ ~DLe(Ihl, Zero)
                    /\ ~DLe(Ih, Zero)
                    /\ ~(isnan(Ih) \/ isinf(Ihl))
                    /\ ~(isnan(Ih) \/ isinf(Ih))
             rest == ScalePoints(reference, c, j + 1)
         IN  IF use
             THEN <<<<DMul(res, res), log(DDiv(Ihl, Ih))>>>> \o rest
             ELSE rest

\* a scale job that stores the result of the fit whatever it was given
ScaleResult_always(reference, c) ==
    LET pts == ScalePoints(reference, c, 1)
        fit == gsl_fit_wlinear(pts)
        G == DDiv(One, exp(fit.c0))
        B == DDiv(DNeg(fit.c1), Dbl(2))
    IN  IF user_flag[c] # 0 THEN <<user_flag[c], osf[c], Bfac[c]>>
        ELSE <<user_flag[c], G, B>>

\* a scale job that sets G = exp(c0)
ScaleResult_direct(reference, c) ==
    LET pts == ScalePoints(reference, c, 1)
        fit == gsl_fit_wlinear(pts)
        G == exp(fit.c0)
        B == DDiv(DNeg(fit.c1), Dbl(2))
    IN  IF user_flag[c] # 0 THEN <<user_flag[c], osf[c], Bfac[c]>>
        ELSE IF Len(pts) < 2 THEN <<1, osf[c], Bfac[c]>>
        ELSE IF fit.r # 0 \/ isnan(fit.c0) THEN <<1, osf[c], Bfac[c]>>
        ELSE <<user_flag[c], G, B>>

\* run_scale_job on crystal c: the crystal's new <<user flag, osf, Bfac>>
ScaleResult(reference, c) ==
    LET pts == ScalePoints(reference, c, 1)
        fit == gsl_fit_wlinear(pts)
        G == DDiv(One, exp(fit.c0))
        B == DDiv(DNeg(fit.c1), Dbl(2))
    IN  IF user_flag[c] # 0 THEN <<user_flag[c], osf[c], Bfac[c]>>
        ELSE IF Len(pts) < 2 THEN <<1, osf[c], Bfac[c]>>
        ELSE IF fit.r # 0 \/ isnan(fit.c0) THEN <<1, osf[c], Bfac[c]>>
        ELSE <<user_flag[c], G, B>>

\* run_scale_job that writes its result to crystals[0]
run_scale_job_first(w) ==
    /\ wk[w].pc = "scale"
    /\ LET c == wk[w].cr
           new == ScaleResult(full, c)
       IN  /\ user_flag' = [user_flag EXCEPT ![0] = new[1]]
           /\ osf' = [osf EXCEPT ![0] = new[2]]
           /\ Bfac' = [Bfac EXCEPT ![0] = new[3]]
    /\ Return(w)
    /\ UNCHANGED <<input_vars, main_vars, full, full_lock, phase, n_started,
                   handed>>

run_scale_job(w) ==
    /\ wk[w].pc = "scale"
    /\ LET c == wk[w].cr
           new == ScaleResult(full, c)
       IN  /\ user_flag' = [user_flag EXCEPT ![c] = new[1]]
           /\ osf' = [osf EXCEPT ![c] = new[2]]
           /\ Bfac' = [Bfac EXCEPT ![c] = new[3]]
    /\ Return(w)
    /\ UNCHANGED <<input_vars, main_vars, full, full_lock, phase, n_started,
                   handed>>

(***************************************************************************)
(* Merging: create_merge_job, run_merge_job, lsq_intensities               *)
(***************************************************************************)

\* create_merge_job that reads qargs->n_started without incrementing it
create_merge_job_noinc(w) ==
    /\ MayCreate(w, "merge")
    /\ wk' = [wk EXCEPT ![w] = [Idle EXCEPT !.pc = "merge", !.cr = n_started]]
    /\ handed' = [handed EXCEPT ![n_started] = @ + 1]
    /\ UNCHANGED <<input_vars, crystal_vars, main_vars, full, full_lock,
                   phase, n_started, n_finished>>

create_merge_job(w) ==
    /\ MayCreate(w, "merge")
    /\ wk' = [wk EXCEPT ![w] = [Idle EXCEPT !.pc = "merge", !.cr = n_started]]
    /\ handed' = [handed EXCEPT ![n_started] = @ + 1]
    /\ n_started' = n_started + 1
    /\ UNCHANGED <<input_vars, crystal_vars, main_vars, full, full_lock,
                   phase, n_finished>>

\* the observation worker w is at
Obs(w) == refl[wk[w].cr][wk[w].it]

\* the scaled intensity the merge adds for observation o of a crystal with
\* scale factor G and B factor B: Ihl * G * exp(2.0*B*res)
MergeTerm(o, G, B) ==
    LET res == resolution(o.key)
        corr == DMul(o.p, o.L)
        Ihl == DDiv(o.I, corr)
    IN  DMul(DMul(Ihl, G), exp(DMul(DMul(Dbl(2), B), res)))

\* run_merge_job that merges a flagged crystal like any other
m_begin_all(w) ==
    /\ wk[w].pc = "merge"
    /\ wk' = [wk EXCEPT ![w].pc = "m_loop", ![w].it = 1,
                        ![w].G = osf[wk[w].cr], ![w].B = Bfac[wk[w].cr]]
    /\ UNCHANGED <<input_vars, crystal_vars, main_vars, pool_vars, full,
                   full_lock>>

\* run_merge_job begins: a flagged crystal is left out; G and B are read
m_begin(w) ==
    /\ wk[w].pc = "merge"
    /\ IF user_flag[wk[w].cr] # 0
       THEN Return(w)
       ELSE /\ wk' = [wk EXCEPT ![w].pc = "m_loop", ![w].it = 1,
                                ![w].G = osf[wk[w].cr],
                                ![w].B = Bfac[wk[w].cr]]
            /\ UNCHANGED n_finished
    /\ UNCHANGED <<input_vars, crystal_vars, main_vars, full, full_lock,
                   phase, n_started, handed>>

\* the head of the loop over the reflections: the job ends after the last
\* one, a reflection below MIN_PART_MERGE is passed over, and for any other
\* the read lock of the table is taken
m_loop(w) ==
    /\ wk[w].pc = "m_loop"
    /\ IF wk[w].it > Len(refl[wk[w].cr])
       THEN /\ Return(w)
            /\ UNCHANGED full_lock
       ELSE IF DLt(Obs(w).p, MIN_PART_MERGE)
       THEN /\ wk' = [wk EXCEPT ![w].it = @ + 1]
            /\ UNCHANGED <<n_finished, full_lock>>
       ELSE /\ full_lock.writer = 0
            /\ full_lock' = [full_lock EXCEPT !.readers = @ \cup {w}]
            /\ wk' = [wk EXCEPT ![w].pc = "m_find"]
            /\ UNCHANGED n_finished
    /\ UNCHANGED <<input_vars, crystal_vars, main_vars, full, phase,
                   n_started, handed>>

\* f = find_refl(full, h, k, l) under the read lock
m_find(w) ==
    /\ wk[w].pc = "m_find"
    /\ LET f == find_refl(full, Obs(w).key)
       IN  wk' = [wk EXCEPT ![w].f = f,
                            ![w].pc = IF f = NULL THEN "m_swap" ELSE "m_lock"]
    /\ UNCHANGED <<input_vars, crystal_vars, main_vars, pool_vars, full,
                   full_lock>>

\* swap read lock for write lock, first half: pthread_rwlock_unlock
m_swap(w) ==
    /\ wk[w].pc = "m_swap"
    /\ full_lock' = [full_lock EXCEPT !.readers = @ \ {w}]
    /\ wk' = [wk EXCEPT ![w].pc = "m_wrlock"]
    /\ UNCHANGED <<input_vars, crystal_vars, main_vars, pool_vars, full>>

\* a write lock taken although readers or a writer hold the lock
m_wrlock_nowait(w) ==
    /\ wk[w].pc = "m_wrlock"
    /\ full_lock' = [full_lock EXCEPT !.writer = w]
    /\ wk' = [wk EXCEPT ![w].pc = "m_find2"]
    /\ UNCHANGED <<input_vars, crystal_vars, main_vars, pool_vars, full>>

\* swap read lock for write lock, second half: pthread_rwlock_wrlock
m_wrlock(w) ==
    /\ wk[w].pc = "m_wrlock"
    /\ full_lock.readers = {}
    /\ full_lock.writer = 0
    /\ full_lock' = [full_lock EXCEPT !.writer = w]
    /\ wk' = [wk EXCEPT ![w].pc = "m_find2"]
    /\ UNCHANGED <<input_vars, crystal_vars, main_vars, pool_vars, full>>

\* the entry added under the write lock without looking it up again
m_find2_nocheck(w) ==
    /\ wk[w].pc = "m_find2"
    /\ LET k == Obs(w).key
       IN  /\ full' = add_refl(full, k)
           /\ wk' = [wk EXCEPT ![w].f = <<k, Len(full[k]) + 1>>,
                               ![w].isnew = TRUE, ![w].pc = "m_lock"]
    /\ UNCHANGED <<input_vars, crystal_vars, main_vars, pool_vars, full_lock>>

\* the reflection might have been created by another thread: check again,
\* and add it if it is still missing
m_find2(w) ==
    /\ wk[w].pc = "m_find2"
    /\ LET k == Obs(w).key
           f == find_refl(full, k)
       IN  IF f = NULL
           THEN /\ full' = add_refl(full, k)
                /\ wk' = [wk EXCEPT ![w].f = <<k, Len(full[k]) + 1>>,
                                    ![w].isnew = TRUE, ![w].pc = "m_lock"]
           ELSE /\ wk' = [wk EXCEPT ![w].f = f, ![w].pc = "m_lock"]
                /\ UNCHANGED full
    /\ UNCHANGED <<input_vars, crystal_vars, main_vars, pool_vars, full_lock>>

\* lock_reflection(f) that does not wait for the entry's lock to be free
m_lock_nowait(w) ==
    /\ wk[w].pc = "m_lock"
    /\ full' = lock_reflection(full, wk[w].f, w)
    /\ wk' = [wk EXCEPT ![w].pc = "m_unlock"]
    /\ UNCHANGED <<input_vars, crystal_vars, main_vars, pool_vars, full_lock>>

\* lock_reflection(f), still holding the table's lock
m_lock(w) ==
    /\ wk[w].pc = "m_lock"
    /\ LockFree(full, wk[w].f)
    /\ full' = lock_reflection(full, wk[w].f, w)
    /\ wk' = [wk EXCEPT ![w].pc = "m_unlock"]
    /\ UNCHANGED <<input_vars, crystal_vars, main_vars, pool_vars, full_lock>>

\* a job that goes on without pthread_rwlock_unlock(wargs->full_lock)
m_unlock_keep(w) ==
    /\ wk[w].pc = "m_unlock"
    /\ wk' = [wk EXCEPT ![w].pc = "m_get"]
    /\ UNCHANGED <<input_vars, crystal_vars, main_vars, pool_vars, full,
                   full_lock>>

\* pthread_rwlock_unlock(wargs->full_lock): the read or the write lock
m_unlock(w) ==
    /\ wk[w].pc = "m_unlock"
    /\ full_lock' = [readers |-> full_lock.readers \ {w},
                     writer |-> IF full_lock.writer = w THEN 0
                                ELSE full_lock.writer]
    /\ wk' = [wk EXCEPT ![w].pc = "m_get"]
    /\ UNCHANGED <<input_vars, crystal_vars, main_vars, pool_vars, full>>

\* num, den, red: 0 for an entry this job created, else get_temp1,
\* get_temp2, get_redundancy
m_get(w) ==
    /\ wk[w].pc = "m_get"
    /\ LET e == Entry(full, wk[w].f)
       IN  wk' = [wk EXCEPT
                    ![w].num = IF wk[w].isnew THEN Zero ELSE e.temp1,
                    ![w].den = IF wk[w].isnew THEN Zero ELSE e.temp2,
                    ![w].red = IF wk[w].isnew THEN 0 ELSE e.redundancy,
                    ![w].pc = "m_set"]
    /\ UNCHANGED <<input_vars, crystal_vars, main_vars, pool_vars, full,
                   full_lock>>

\* a merge step that leaves the redundancy as it found it
m_set_nored(w) ==
    /\ wk[w].pc = "m_set"
    /\ LET num == DAdd(wk[w].num, MergeTerm(Obs(w), wk[w].G, wk[w].B))
           den == DAdd(wk[w].den, One)
       IN  /\ full' = [full EXCEPT
                         ![wk[w].f[1]][wk[w].f[2]].temp1 = num,
                         ![wk[w].f[1]][wk[w].f[2]].temp2 = den]
           /\ wk' = [wk EXCEPT ![w].num = num, ![w].den = den,
                               ![w].pc = "m_unlock_refl"]
    /\ UNCHANGED <<input_vars, crystal_vars, main_vars, pool_vars, full_lock>>

\* num += Ihl*G*exp(2.0*B*res); den += 1.0; red++; set_temp1, set_temp2,
\* set_redundancy
m_set(w) ==
    /\ wk[w].pc = "m_set"
    /\ LET num == DAdd(wk[w].num, MergeTerm(Obs(w), wk[w].G, wk[w].B))
           den == DAdd(wk[w].den, One)
           red == wk[w].red + 1
       IN  /\ full' = [full EXCEPT
                         ![wk[w].f[1]][wk[w].f[2]].temp1 = num,
                         ![wk[w].f[1]][wk[w].f[2]].temp2 = den,
                         ![wk[w].f[1]][wk[w].f[2]].redundancy = red]
           /\ wk' = [wk EXCEPT ![w].num = num, ![w].den = den, ![w].red = red,
                               ![w].pc = "m_unlock_refl"]
    /\ UNCHANGED <<input_vars, crystal_vars, main_vars, pool_vars, full_lock>>

\* unlock_reflection(f), and on to the next reflection
m_unlock_refl(w) ==
    /\ wk[w].pc = "m_unlock_refl"
    /\ full' = unlock_reflection(full, wk[w].f)
    /\ wk' = [wk EXCEPT ![w] = [Idle EXCEPT !.pc = "m_loop", !.cr = wk[w].cr,
                                            !.it = wk[w].it + 1,
                                            !.G = wk[w].G, !.B = wk[w].B]]
    /\ UNCHANGED <<input_vars, crystal_vars, main_vars, pool_vars, full_lock>>

\* lsq_intensities that merges into the list of the merge before
lsq_begin_keep(from) ==
    /\ full' = full
    /\ full_lock' = [readers |-> {}, writer |-> 0]
    /\ RunThreads("merge")
    /\ caller' = from
    /\ pc' = "lsq_wait"

\* lsq_intensities begins: a new list, the table lock, and the merge jobs
lsq_begin(from) ==
    /\ full' = reflist_new
    /\ full_lock' = [readers |-> {}, writer |-> 0]
    /\ RunThreads("merge")
    /\ caller' = from
    /\ pc' = "lsq_wait"

\* a last loop of lsq_intensities that leaves out the division
SetIntensity_sum(e) == [e EXCEPT !.intensity = e.temp1]

\* the last loop of lsq_intensities: Ih = temp1 / temp2 for every entry
SetIntensity(e) == [e EXCEPT !.intensity = DDiv(e.temp1, e.temp2)]

SetIntensities(list) ==
    [k \in Keys |-> [j \in 1 .. Len(list[k]) |-> SetIntensity(list[k][j])]]

\* lsq_intensities that goes on before run_threads has returned
lsq_end_early ==
    /\ pc = "lsq_wait"
    /\ full' = SetIntensities(full)
    /\ phase' = "none"
    /\ pc' = CASE caller = "noscale" -> "esds"
               [] caller = "initial" -> "cycle_begin"
               [] caller = "cycle" -> "cycle_end"
    /\ i' = IF caller = "initial" THEN 0 ELSE i
    /\ UNCHANGED <<input_vars, crystal_vars, full_lock, caller, done,
                   old_osfs, warned, min_red, n_started, n_finished, wk,
                   handed>>

\* lsq_intensities ends once run_threads has returned, and
\* scale_intensities goes on after the call
lsq_end ==
    /\ pc = "lsq_wait"
    /\ PoolDone
    /\ full' = SetIntensities(full)
    /\ phase' = "none"
    /\ pc' = CASE caller = "noscale" -> "esds"
               [] caller = "initial" -> "cycle_begin"
               [] caller = "cycle" -> "cycle_end"
    /\ i' = IF caller = "initial" THEN 0 ELSE i
    /\ UNCHANGED <<input_vars, crystal_vars, full_lock, caller, done,
                   old_osfs, warned, min_red, n_started, n_finished, wk,
                   handed>>

(***************************************************************************)
(* ESDs: create_esd_job, run_esd_job, calculate_esds                       *)
(***************************************************************************)

create_esd_job(w) ==
    /\ MayCreate(w, "esd")
    /\ wk' = [wk EXCEPT ![w] = [Idle EXCEPT !.pc = "esd", !.cr = n_started]]
    /\ handed' = [handed EXCEPT ![n_started] = @ + 1]
    /\ n_started' = n_started + 1
    /\ UNCHANGED <<input_vars, crystal_vars, main_vars, full, full_lock,
                   phase, n_finished>>

\* the squared deviation the ESD pass adds for observation o of a crystal
\* with scale factor G, against the merged intensity Ih:
\* pow(I/(G*corr) - Ih, 2.0)
EsdTerm(o, G, Ih) ==
    LET corr == DMul(o.p, o.L)
        Ihl == DDiv(o.I, DMul(G, corr))
        d == DSub(Ihl, Ih)
    IN  DMul(d, d)

\* run_esd_job that does not look at the crystal's flag
e_begin_all(w) ==
    /\ wk[w].pc = "esd"
    /\ wk' = [wk EXCEPT ![w].pc = "e_loop", ![w].it = 1,
                        ![w].G = osf[wk[w].cr]]
    /\ UNCHANGED <<input_vars, crystal_vars, main_vars, full, full_lock,
                   pool_vars>>

\* run_esd_job begins: a flagged crystal is left out; G is read
e_begin(w) ==
    /\ wk[w].pc = "esd"
    /\ IF user_flag[wk[w].cr] # 0
       THEN Return(w)
       ELSE /\ wk' = [wk EXCEPT ![w].pc = "e_loop", ![w].it = 1,
                                ![w].G = osf[wk[w].cr]]
            /\ UNCHANGED n_finished
    /\ UNCHANGED <<input_vars, crystal_vars, main_vars, full, full_lock,
                   phase, n_started, handed>>

\* the head of the loop: the job ends after the last reflection, one below
\* MIN_PART_MERGE is passed over, any other is looked up in the list;
\* assert(f != NULL) stops the program, all its threads, when it is missing
e_loop(w) ==
    /\ wk[w].pc = "e_loop"
    /\ IF wk[w].it > Len(refl[wk[w].cr])
       THEN Return(w)
       ELSE IF DLt(Obs(w).p, MIN_PART_MERGE)
       THEN /\ wk' = [wk EXCEPT ![w].it = @ + 1]
            /\ UNCHANGED n_finished
       ELSE LET f == find_refl(full, Obs(w).key)
            IN  /\ wk' = IF f = NULL
                         THEN [v \in Threads |->
                                 [wk[v] EXCEPT !.pc = "assert_failed"]]
                         ELSE [wk EXCEPT ![w].f = f, ![w].pc = "e_lock"]
                /\ UNCHANGED n_finished
    /\ UNCHANGED <<input_vars, crystal_vars, main_vars, full, full_lock,
                   phase, n_started, handed>>

\* lock_reflection(f) that does not wait for the entry's lock to be free
e_lock_nowait(w) ==
    /\ wk[w].pc = "e_lock"
    /\ full' = lock_reflection(full, wk[w].f, w)
    /\ wk' = [wk EXCEPT ![w].pc = "e_get"]
    /\ UNCHANGED <<input_vars, crystal_vars, main_vars, pool_vars, full_lock>>

\* lock_reflection(f)
e_lock(w) ==
    /\ wk[w].pc = "e_lock"
    /\ LockFree(full, wk[w].f)
    /\ full' = lock_reflection(full, wk[w].f, w)
    /\ wk' = [wk EXCEPT ![w].pc = "e_get"]
    /\ UNCHANGED <<input_vars, crystal_vars, main_vars, pool_vars, full_lock>>

\* num = get_temp1(f)
e_get(w) ==
    /\ wk[w].pc = "e_get"
    /\ wk' = [wk EXCEPT ![w].num = Entry(full, wk[w].f).temp1,
                        ![w].pc = "e_set"]
    /\ UNCHANGED <<input_vars, crystal_vars, main_vars, pool_vars, full,
                   full_lock>>

\* num += pow(Ihl - Ih, 2.0); set_temp1(f, num)
e_set(w) ==
    /\ wk[w].pc = "e_set"
    /\ LET Ih == Entry(full, wk[w].f).intensity
           num == DAdd(wk[w].num, EsdTerm(Obs(w), wk[w].G, Ih))
       IN  /\ full' = [full EXCEPT ![wk[w].f[1]][wk[w].f[2]].temp1 = num]
           /\ wk' = [wk EXCEPT ![w].num = num, ![w].pc = "e_unlock_refl"]
    /\ UNCHANGED <<input_vars, crystal_vars, main_vars, pool_vars, full_lock>>

\* unlock_reflection(f), and on to the next reflection
e_unlock_refl(w) ==
    /\ wk[w].pc = "e_unlock_refl"
    /\ full' = unlock_reflection(full, wk[w].f)
    /\ wk' = [wk EXCEPT ![w] = [Idle EXCEPT !.pc = "e_loop", !.cr = wk[w].cr,
                                            !.it = wk[w].it + 1,
                                            !.G = wk[w].G]]
    /\ UNCHANGED <<input_vars, crystal_vars, main_vars, pool_vars, full_lock>>

\* the first loop of calculate_esds: set_temp1(refl, 0.0), set_temp2(refl, 0.0)
ZeroTemps(e) == [e EXCEPT !.temp1 = Zero, !.temp2 = Zero]

ZeroAllTemps(list) ==
    [k \in Keys |-> [j \in 1 .. Len(list[k]) |-> ZeroTemps(list[k][j])]]

\* calculate_esds begins: the accumulators are zeroed, the ESD jobs start
esd_begin ==
    /\ pc = "esds"
    /\ full' = ZeroAllTemps(full)
    /\ RunThreads("esd")
    /\ pc' = "esd_wait"
    /\ UNCHANGED <<input_vars, crystal_vars, full_lock, caller, i, done,
                   old_osfs, warned, min_red, wk>>

\* the values of min_redundancy tried
MinRedundancies == {1, 2}

\* a last loop of calculate_esds that suppresses nothing
SetEsd_keep(e, mr) ==
    [e EXCEPT !.esd = DDiv(sqrt(e.temp1), Dbl(e.redundancy))]

\* the last loop of calculate_esds, for one entry: esd = sqrt(temp1)/red,
\* and the redundancy is set to 0 below min_red
SetEsd(e, mr) ==
    [e EXCEPT !.esd = DDiv(sqrt(e.temp1), Dbl(e.redundancy)),
              !.redundancy = IF e.redundancy < mr THEN 0 ELSE e.redundancy]

SetEsds(list, mr) ==
    [k \in Keys |-> [j \in 1 .. Len(list[k]) |-> SetEsd(list[k][j], mr)]]

\* calculate_esds ends once run_threads has returned; scale_intensities
\* returns the list
esd_end ==
    /\ pc = "esd_wait"
    /\ PoolDone
    /\ \E mr \in MinRedundancies :
          /\ min_red' = mr
          /\ full' = SetEsds(full, mr)
    /\ phase' = "none"
    /\ pc' = "returned"
    /\ UNCHANGED <<input_vars, crystal_vars, full_lock, caller, i, done,
                   old_osfs, warned, n_started, n_finished, wk, handed>>

(***************************************************************************)
(* scale_intensities                                                       *)
(***************************************************************************)

\* reset_scaling_flag: a flag of 1 is cleared, any other flag stays
reset_scaling_flag(flag) == IF flag = 1 THEN 0 ELSE flag

\* an initialisation loop that resets the flags only
init_loop_flags ==
    /\ pc = "start"
    /\ user_flag' = [c \in Crystals |-> reset_scaling_flag(user_flag[c])]
    /\ pc' = "init_done"
    /\ UNCHANGED <<input_vars, osf, Bfac, full, full_lock, caller, i, done,
                   old_osfs, warned, min_red, pool_vars, wk>>

\* the initialisation loop: reset_scaling_flag, osf = 1.0, Bfac = 0.0
init_loop ==
    /\ pc = "start"
    /\ user_flag' = [c \in Crystals |-> reset_scaling_flag(user_flag[c])]
    /\ osf' = [c \in Crystals |-> One]
    /\ Bfac' = [c \in Crystals |-> Zero]
    /\ pc' = "init_done"
    /\ UNCHANGED <<input_vars, full, full_lock, caller, i, done, old_osfs,
                   warned, min_red, pool_vars, wk>>

\* scale_intensities that does not look at noscale
first_merge_scaled ==
    /\ pc = "init_done"
    /\ lsq_begin("initial")
    /\ UNCHANGED <<input_vars, crystal_vars, i, done, old_osfs, warned,
                   min_red, wk>>

\* if ( noscale ) full = lsq_intensities(...), else the initial list to
\* refine against: full = lsq_intensities(...)
first_merge ==
    /\ pc = "init_done"
    /\ lsq_begin(IF noscale THEN "noscale" ELSE "initial")
    /\ UNCHANGED <<input_vars, crystal_vars, i, done, old_osfs, warned,
                   min_red, wk>>

\* a macrocycle begins: old_osfs[j] = osf, reset_scaling_flag, and
\* iterate_scale starts the scale jobs
cycle_begin ==
    /\ pc = "cycle_begin"
    /\ old_osfs' = osf
    /\ user_flag' = [c \in Crystals |-> reset_scaling_flag(user_flag[c])]
    /\ RunThreads("scale")
    /\ pc' = "scale_wait"
    /\ UNCHANGED <<input_vars, osf, Bfac, full, full_lock, caller, i, done,
                   warned, min_red, wk>>

\* iterate_scale returns once run_threads has returned
iterate_scale_end ==
    /\ pc = "scale_wait"
    /\ PoolDone
    /\ phase' = "none"
    /\ pc' = "reject"
    /\ UNCHANGED <<input_vars, crystal_vars, full, full_lock, caller, i, done,
                   old_osfs, warned, min_red, n_started, n_finished, wk,
                   handed>>

\* reject_outliers, for one crystal: bad when osf is NaN, < 0.0 or > 10.0,
\* or Bfac is NaN, < -40e-20 or > 40e-20
Outlier(G, B) ==
    \/ isnan(G) \/ DLt(G, Zero) \/ DGt(G, OSF_MAX)
    \/ isnan(B) \/ DLt(B, DNeg(BFAC_MAX)) \/ DGt(B, BFAC_MAX)

reject_outliers ==
    /\ pc = "reject"
    /\ user_flag' = [c \in Crystals |->
                       IF Outlier(osf[c], Bfac[c]) THEN 1 ELSE user_flag[c]]
    /\ pc' = "normalise"
    /\ UNCHANGED <<input_vars, osf, Bfac, full, full_lock, caller, i, done,
                   old_osfs, warned, min_red, pool_vars, wk>>

\* the sum of v[c] over the crystals c < m with flag 0
RECURSIVE SumUnflagged(_, _)
SumUnflagged(v, m) ==
    IF m = 0 THEN Zero
    ELSE IF user_flag[m - 1] = 0
         THEN DAdd(SumUnflagged(v, m - 1), v[m - 1])
         ELSE SumUnflagged(v, m - 1)

\* the number of crystals with flag 0
NUnflagged == Cardinality({c \in Crystals : user_flag[c] = 0})

\* normalise the scale factors: norm_sf = total_sf / n_sf over the
\* crystals with flag 0, then every osf is divided by norm_sf
normalise ==
    /\ pc = "normalise"
    /\ LET norm_sf == DDiv(SumUnflagged(osf, n), Dbl(NUnflagged))
       IN  osf' = [c \in Crystals |-> DDiv(osf[c], norm_sf)]
    /\ pc' = "converge"
    /\ UNCHANGED <<input_vars, user_flag, Bfac, full, full_lock, caller, i,
                   done, old_osfs, warned, min_red, pool_vars, wk>>

\* a convergence test that takes the mean change of no crystals to be 0
test_convergence_empty ==
    LET change == [c \in Crystals |-> fabs(DSub(osf[c], old_osfs[c]))]
        mean_change == DDiv(SumUnflagged(change, n), Dbl(NUnflagged))
    IN  NUnflagged = 0 \/ DLt(mean_change, CONV_LIMIT)

\* test_convergence: the mean of fabs(new_osf - old_osfs[i]) over the
\* crystals with flag 0 is below 0.01
test_convergence ==
    LET change == [c \in Crystals |-> fabs(DSub(osf[c], old_osfs[c]))]
        mean_change == DDiv(SumUnflagged(change, n), Dbl(NUnflagged))
    IN  DLt(mean_change, CONV_LIMIT)

converge ==
    /\ pc = "converge"
    /\ done' = test_convergence
    /\ pc' = "remerge"
    /\ UNCHANGED <<input_vars, crystal_vars, full, full_lock, caller, i,
                   old_osfs, warned, min_red, pool_vars, wk>>

\* a macrocycle that keeps the list it scaled against
remerge_stale ==
    /\ pc = "remerge"
    /\ pc' = "cycle_end"
    /\ caller' = "cycle"
    /\ UNCHANGED <<input_vars, crystal_vars, full, full_lock, i, done,
                   old_osfs, warned, min_red, pool_vars, wk>>

\* generate the list for the next iteration: reflist_free(full);
\* full = lsq_intensities(...)
remerge ==
    /\ pc = "remerge"
    /\ lsq_begin("cycle")
    /\ UNCHANGED <<input_vars, crystal_vars, i, done, old_osfs, warned,
                   min_red, wk>>

\* a loop that goes on to MAX_CYCLES whatever test_convergence returned
cycle_end_nodone ==
    /\ pc = "cycle_end"
    /\ i' = i + 1
    /\ IF i' < MAX_CYCLES
       THEN /\ pc' = "cycle_begin"
            /\ UNCHANGED warned
       ELSE /\ pc' = "esds"
            /\ warned' = (i' = MAX_CYCLES)
    /\ UNCHANGED <<input_vars, crystal_vars, full, full_lock, caller, done,
                   old_osfs, min_red, pool_vars, wk>>

\* i++; while ( !done && (i < MAX_CYCLES) ); the warning when
\* i == MAX_CYCLES; then calculate_esds
cycle_end ==
    /\ pc = "cycle_end"
    /\ i' = i + 1
    /\ IF ~done /\ i' < MAX_CYCLES
       THEN /\ pc' = "cycle_begin"
            /\ UNCHANGED warned
       ELSE /\ pc' = "esds"
            /\ warned' = (i' = MAX_CYCLES)
    /\ UNCHANGED <<input_vars, crystal_vars, full, full_lock, caller, done,
                   old_osfs, min_red, pool_vars, wk>>

(***************************************************************************)
(* The program                                                             *)
(***************************************************************************)

Main ==
    \/ init_loop
    \/ first_merge
    \/ lsq_end
    \/ cycle_begin
    \/ iterate_scale_end
    \/ reject_outliers
    \/ normalise
    \/ converge
    \/ remerge
    \/ cycle_end
    \/ esd_begin
    \/ esd_end

Worker(w) ==
    \/ create_scale_job(w)
    \/ run_scale_job(w)
    \/ create_merge_job(w)
    \/ m_begin(w)
    \/ m_loop(w)
    \/ m_find(w)
    \/ m_swap(w)
    \/ m_wrlock(w)
    \/ m_find2(w)
    \/ m_lock(w)
    \/ m_unlock(w)
    \/ m_get(w)
    \/ m_set(w)
    \/ m_unlock_refl(w)
    \/ create_esd_job(w)
    \/ e_begin(w)
    \/ e_loop(w)
    \/ e_lock(w)
    \/ e_get(w)
    \/ e_set(w)
    \/ e_unlock_refl(w)

Next == Main \/ \E w \in Threads : Worker(w)

Spec == Init /\ [][Next]_vars

\* three crystals that need all MAX_CYCLES macrocycles to converge
RL_slow == << <<Strong(1, 3), Strong(2, 1)>>,
              <<Strong(1, 7), Strong(2, 20)>>,
              <<Strong(1, 16), Strong(2, 4)>> >>

\* intensities whose threefold sum is rounded
RL_round == <<Strong(1, 5462), Strong(2, 10926)>>

\* a crystal four times as bright as RL_unit
RL_four == <<Strong(1, 4), Strong(2, 4)>>

\* a crystal that observed the same indices twice
RL_twin == <<Strong(1, 1), Strong(1, 4)>>

\* a crystal whose first observation carries the equivalent indices 3
RL_mirror == <<Strong(3, 1), Strong(2, 1)>>

\* lists of crystals for longer runs
LongLists ==
    {RL_slow, <<RL_round, RL_round>>, <<RL_round, RL_round, RL_round>>,
     <<RL_four, RL_unit, RL_unit>>, <<RL_twin, RL_unit, RL_part>>,
     <<RL_unit, RL_mirror>>}

\* scale_intensities called on one of LongLists, every crystal as
\* partialator initialises it: G = 1, B = 0, flag 0
InitLong ==
    /\ NoRefinement
    /\ refl \in {[c \in 0 .. (Len(s) - 1) |-> s[c + 1]] : s \in LongLists}
    /\ n_threads \in 1 .. MaxThreads
    /\ noscale \in BOOLEAN
    /\ min_red = 0
    /\ user_flag = [c \in Crystals |-> 0]
    /\ osf = [c \in Crystals |-> One]
    /\ Bfac = [c \in Crystals |-> Zero]
    /\ full = reflist_new
    /\ full_lock = [readers |-> {}, writer |-> 0]
    /\ pc = "start"
    /\ caller = "none"
    /\ i = 0
    /\ done = FALSE
    /\ old_osfs = [c \in Crystals |-> Zero]
    /\ warned = FALSE
    /\ phase = "none"
    /\ n_started = 0
    /\ n_finished = 0
    /\ wk = [w \in Threads |-> Idle]
    /\ handed = [c \in Crystals |-> 0]

SpecLong == InitLong /\ [][Next]_vars

(***************************************************************************)
(* Post-refinement: pr_refine, pr_iterate                                  *)
(***************************************************************************)

\* the maximum number of iterations for each image
MAX_CYCLES_PR == 10

\* pr_refine goes on while max_shift > 0.01
SHIFT_LIMIT == D(1, 100)

\* the refineable parameters enum, in its order; an enumerator's value is
\* its place in the list, counted from 0
Enumerators ==
    <<"REF_ASX", "NUM_PARAMS", "REF_BSX", "REF_CSX", "REF_ASY", "REF_BSY",
      "REF_CSY", "REF_ASZ", "REF_BSZ", "REF_CSZ", "REF_DIV", "REF_R">>

EnumValue(name) ==
    CHOOSE v \in 0 .. (Len(Enumerators) - 1) : Enumerators[v + 1] = name

NUM_PARAMS == EnumValue("NUM_PARAMS")

\* the values of the enumerators REF_*: the parameters of an image that
\* gradient and apply_shift know
RefParams ==
    {v \in 0 .. (Len(Enumerators) - 1) : Enumerators[v + 1] # "NUM_PARAMS"}

\* the scaling variables, which post-refinement leaves alone
hrs_vars == <<refl, n_threads, noscale, min_red, user_flag, osf, Bfac, full,
              full_lock, pc, caller, i, done, old_osfs, warned, phase,
              n_started, n_finished, wk, handed>>

\* a reflection of the image: indices, intensity, partiality, scalable
PRefl(k, I, p, sc) == [key |-> k, I |-> I, p |-> p, scalable |-> sc]

\* the reflection lists an image may carry
ImageLists ==
    { <<>>,
      <<PRefl(1, Dbl(2), One, TRUE)>>,
      <<PRefl(1, Dbl(2), D(1, 2), TRUE), PRefl(2, Dbl(1), One, TRUE)>>,
      <<PRefl(1, Dbl(2), One, FALSE), PRefl(2, Dbl(1), D(1, 2), TRUE)>>,
      <<PRefl(1, Dbl(2), One, FALSE), PRefl(2, Dbl(1), One, FALSE)>> }

\* the values of gradient(image, k, refl, r), which depend on the geometry
\* of the image through resolution, angle_between and get_partial
GradValues == {Zero, One}

\* the partialities update_partialities_and_asymm may give a reflection
PartValues == {One, D(1, 2)}

\* the references an image is refined against: every key the image holds
\* has an entry
References ==
    { [k \in Keys |->
          IF k = 3 THEN <<>>
          ELSE <<[NewEntry EXCEPT !.intensity = I[k], !.redundancy = 2]>>] :
          I \in [{1, 2} -> {Dbl(2), PInf}] }

\* pr_refine is called on an image
InitPR ==
    /\ refl = <<>>
    /\ n_threads = 1
    /\ noscale = FALSE
    /\ min_red = 0
    /\ user_flag = <<>>
    /\ osf = <<>>
    /\ Bfac = <<>>
    /\ full \in References
    /\ full_lock = [readers |-> {}, writer |-> 0]
    /\ pc = "none"
    /\ caller = "none"
    /\ i = 0
    /\ done = FALSE
    /\ old_osfs = <<>>
    /\ warned = FALSE
    /\ phase = "none"
    /\ n_started = 0
    /\ n_finished = 0
    /\ wk = [w \in Threads |-> Idle]
    /\ handed = <<>>
    /\ \E rl \in ImageLists, G \in {One, Dbl(2)} :
          image = [osf |-> G, par |-> [k \in RefParams |-> One],
                   reflections |-> rl]
    /\ shifts = [k \in 0 .. (NUM_PARAMS - 1) |-> Zero]
    /\ max_shift = Zero
    /\ pr_i = 0
    /\ pr_pc = "pr_start"
    /\ rt = [pc |-> "none"]
    /\ sim = [pc |-> "none"]

\* pr_refine begins: dev = mean_partial_dev(...), i = 0
pr_begin ==
    /\ pr_pc = "pr_start"
    /\ pr_i' = 0
    /\ pr_pc' = "pr_iterate"
    /\ UNCHANGED <<hrs_vars, rt, sim, image, shifts, max_shift>>

\* pr_iterate, for reflection j: I_full = image->osf * get_intensity(match)
PrIFull(j) ==
    DMul(image.osf,
         Entry(full, find_refl(full, image.reflections[j].key)).intensity)

\* pr_iterate: M[g][k] after the scalable reflections 1 .. m, given the
\* gradients of each reflection
RECURSIVE PrMatrix(_, _, _, _)
PrMatrix(gradients, g, k, m) ==
    IF m = 0 THEN Zero
    ELSE IF ~image.reflections[m].scalable
         THEN PrMatrix(gradients, g, k, m - 1)
         ELSE DAdd(PrMatrix(gradients, g, k, m - 1),
                   DMul(DMul(gradients[m][g], gradients[m][k]),
                        DMul(PrIFull(m), PrIFull(m))))

\* pr_iterate: v[k] after the scalable reflections 1 .. m, with
\* delta_I = I_partial - (p * I_full)
RECURSIVE PrVector(_, _, _)
PrVector(gradients, k, m) ==
    IF m = 0 THEN Zero
    ELSE IF ~image.reflections[m].scalable
         THEN PrVector(gradients, k, m - 1)
         ELSE LET o == image.reflections[m]
                  delta_I == DSub(o.I, DMul(o.p, PrIFull(m)))
              IN  DAdd(PrVector(gradients, k, m - 1),
                       DMul(DMul(delta_I, PrIFull(m)), gradients[m][k]))

\* gsl_linalg_HH_solve(M, v, shifts) for the 1 x 1 system of NUM_PARAMS = 1:
\* x = v, then the Householder step and the back-substitution; the outcomes
\* when the matrix is rank deficient (r == 0.0) are the call of the error
\* handler, which aborts unless it was switched off, and the return with x
\* as it is
gsl_linalg_HH_solve(M, v) ==
    LET aii == M[0][0]
        r == DMul(aii, aii)
        alpha == IF DGe(aii, Zero) THEN sqrt(r) ELSE DNeg(sqrt(r))
        ak == DDiv(One, DAdd(r, DMul(alpha, aii)))
        a1 == DAdd(aii, alpha)
        f == DMul(DMul(v[0], a1), ak)
        x0 == DSub(v[0], DMul(f, a1))
    IN  IF r = Zero
        THEN {[abort |-> TRUE, x |-> v], [abort |-> FALSE, x |-> v]}
        ELSE {[abort |-> FALSE,
               x |-> [k \in {0} |-> DDiv(x0, DNeg(alpha))]]}

\* the loop of pr_iterate over param = 0 .. m-1:
\* apply_shift(image, param, shift) adds the shift to the parameter
RECURSIVE ApplyShifts(_, _, _)
ApplyShifts(par, x, m) ==
    IF m = 0 THEN par
    ELSE [ApplyShifts(par, x, m - 1) EXCEPT ![m - 1] = DAdd(@, x[m - 1])]

\* the loop of pr_iterate over param = 0 .. m-1: max_shift starts at 0.0,
\* if ( fabs(shift) > max_shift ) max_shift = fabs(shift)
RECURSIVE MaxShift(_, _)
MaxShift(x, m) ==
    IF m = 0 THEN Zero
    ELSE LET before == MaxShift(x, m - 1)
         IN  IF DGt(fabs(x[m - 1]), before) THEN fabs(x[m - 1]) ELSE before

\* one call of pr_iterate: the equations, the solve, the shifts applied
pr_iterate ==
    /\ pr_pc = "pr_iterate"
    /\ \E gradients \in [1 .. Len(image.reflections) ->
                            [0 .. (NUM_PARAMS - 1) -> GradValues]] :
          LET m == Len(image.reflections)
              M == [g \in 0 .. (NUM_PARAMS - 1) |->
                      [k \in 0 .. (NUM_PARAMS - 1) |->
                          PrMatrix(gradients, g, k, m)]]
              v == [k \in 0 .. (NUM_PARAMS - 1) |->
                      PrVector(gradients, k, m)]
          IN  \E out \in gsl_linalg_HH_solve(M, v) :
                  IF out.abort
                         \/ \E k \in 0 .. (NUM_PARAMS - 1) : k \notin RefParams
                  THEN /\ pr_pc' = "pr_aborted"
                       /\ UNCHANGED <<image, shifts, max_shift>>
                  ELSE /\ shifts' = out.x
                       /\ image' = [image EXCEPT
                                      !.par = ApplyShifts(@, out.x, NUM_PARAMS)]
                       /\ max_shift' = MaxShift(out.x, NUM_PARAMS)
                       /\ pr_pc' = "pr_update"
    /\ UNCHANGED <<hrs_vars, rt, sim, pr_i>>

\* a loop of pr_refine that does not look at max_shift
pr_update_all ==
    /\ pr_pc = "pr_update"
    /\ \E ps \in [1 .. Len(image.reflections) -> PartValues] :
          image' = [image EXCEPT
                      !.reflections = [j \in DOMAIN @ |->
                                          [@[j] EXCEPT !.p = ps[j]]]]
    /\ pr_i' = pr_i + 1
    /\ pr_pc' = IF pr_i' < MAX_CYCLES_PR THEN "pr_iterate" ELSE "pr_returned"
    /\ UNCHANGED <<hrs_vars, rt, sim, shifts, max_shift>>

\* the rest of an iteration of pr_refine: update_partialities_and_asymm,
\* i++, while ( (max_shift > 0.01) && (i < MAX_CYCLES) )
pr_update ==
    /\ pr_pc = "pr_update"
    /\ \E ps \in [1 .. Len(image.reflections) -> PartValues] :
          image' = [image EXCEPT
                      !.reflections = [j \in DOMAIN @ |->
                                          [@[j] EXCEPT !.p = ps[j]]]]
    /\ pr_i' = pr_i + 1
    /\ pr_pc' = IF DGt(max_shift, SHIFT_LIMIT) /\ pr_i' < MAX_CYCLES_PR
                THEN "pr_iterate"
                ELSE "pr_returned"
    /\ UNCHANGED <<hrs_vars, rt, sim, shifts, max_shift>>

NextPR == pr_begin \/ pr_iterate \/ pr_update

SpecPR == InitPR /\ [][NextPR]_vars

(***************************************************************************)
(* The rational number library: rtnl_mul, rtnl_div, rtnl_add, rtnl_sub     *)
(***************************************************************************)

\* the width of signed int in the model; signed long long int, the type of
\* the fields num and den of a Rational, has twice the width
IntBits == 4
LongBits == 2 * IntBits

\* the value of x in a two's complement integer of the given width
Wrap(x, bits) == ((x + Pow2(bits - 1)) % Pow2(bits)) - Pow2(bits - 1)

\* signed overflow is undefined: a build either wraps the value or traps
Builds == {"wrap", "trap"}

\* what becomes of an arithmetic step of exact value x in the given width
Arith(build, x, bits) ==
    IF build = "trap" /\ Wrap(x, bits) # x THEN "trap" ELSE "ok"

\* statements run in order: the first one that ends the process decides
RECURSIVE Outcome(_)
Outcome(steps) ==
    IF steps = <<>> THEN "ok"
    ELSE IF Head(steps) # "ok" THEN Head(steps)
    ELSE Outcome(Tail(steps))

\* a / b in C, which truncates towards zero (a % b is a - b * (a / b))
CQuot(a, b) ==
    IF (a < 0) = (b < 0) THEN Abs(a) \div Abs(b) ELSE -(Abs(a) \div Abs(b))

\* gcd(a, b) on signed int: while ( b != 0 ) { t = b; b = a % b; a = t; }
RECURSIVE gcd(_, _, _)
gcd(build, a, b) ==
    IF b = 0 THEN [status |-> "ok", g |-> a]
    ELSE LET q == CQuot(a, b)
             rest == gcd(build, b, a - b * q)
         IN  [status |-> Outcome(<<Arith(build, q, IntBits), rest.status>>),
              g |-> rest.g]

\* squish(rt): the arguments of gcd are converted to signed int, the
\* fields are divided by g and the sign is moved to the numerator
squish(build, r) ==
    IF r.num = 0 THEN [status |-> "ok", num |-> 0, den |-> 1]
    ELSE LET e == gcd(build, Wrap(r.num, IntBits), Wrap(r.den, IntBits))
         IN  IF e.g = 0
             THEN [status |-> Outcome(<<e.status, "assert">>),
                   num |-> r.num, den |-> r.den]
             ELSE LET qn == CQuot(r.num, e.g)
                      qd == CQuot(r.den, e.g)
                      num == Wrap(qn, LongBits)
                      den == Wrap(qd, LongBits)
                  IN  IF den < 0
                      THEN [status |->
                                Outcome(<<e.status,
                                          Arith(build, qn, LongBits),
                                          Arith(build, qd, LongBits),
                                          Arith(build, -num, LongBits),
                                          Arith(build, -den, LongBits)>>),
                            num |-> Wrap(-num, LongBits),
                            den |-> Wrap(-den, LongBits)]
                      ELSE [status |->
                                Outcome(<<e.status,
                                          Arith(build, qn, LongBits),
                                          Arith(build, qd, LongBits)>>),
                            num |-> num, den |-> den]

\* check_overflow(c, a, b): "overflow" when it calls overflow(), which
\* aborts
check_overflow(build, c, a, b) ==
    IF a = 0 \/ b = 0 THEN (IF c # 0 THEN "overflow" ELSE "ok")
    ELSE LET llabs(x) == Wrap(Abs(x), LongBits)
         IN  Outcome(<<Arith(build, Abs(c), LongBits),
                       Arith(build, Abs(a), LongBits),
                       IF llabs(c) < llabs(a) THEN "overflow" ELSE "ok",
                       Arith(build, Abs(b), LongBits),
                       IF llabs(c) < llabs(b) THEN "overflow" ELSE "ok">>)

\* rtnl_mul(a, b)
rtnl_mul(build, a, b) ==
    LET xn == a.num * b.num
        xd == a.den * b.den
        r == [num |-> Wrap(xn, LongBits), den |-> Wrap(xd, LongBits)]
        sq == squish(build, r)
    IN  [sq EXCEPT !.status =
            Outcome(<<Arith(build, xn, LongBits),
                      Arith(build, xd, LongBits),
                      check_overflow(build, r.num, a.num, b.num),
                      check_overflow(build, r.den, a.den, b.den),
                      sq.status>>)]

\* rtnl_div(a, b): signed int t = b.num; b.num = b.den; b.den = t;
rtnl_div(build, a, b) ==
    rtnl_mul(build, a, [num |-> b.den, den |-> Wrap(b.num, IntBits)])

\* rtnl_add(a, b)
rtnl_add(build, a, b) ==
    LET x1 == a.num * b.den
        x2 == b.num * a.den
        xd == a.den * b.den
        n1 == Wrap(x1, LongBits)
        n2 == Wrap(x2, LongBits)
        d1 == Wrap(xd, LongBits)
        sq == squish(build, [num |-> Wrap(n1 + n2, LongBits), den |-> d1])
    IN  [sq EXCEPT !.status =
            Outcome(<<Arith(build, x1, LongBits),
                      Arith(build, x2, LongBits),
                      check_overflow(build, n1, a.num, b.den),
                      check_overflow(build, n2, b.num, a.den),
                      Arith(build, xd, LongBits),
                      check_overflow(build, d1, a.den, b.den),
                      Arith(build, n1 + n2, LongBits),
                      sq.status>>)]

\* rtnl_sub(a, b): b.num = -b.num; return rtnl_add(a, b);
rtnl_sub(build, a, b) ==
    LET sum == rtnl_add(build, a, [b EXCEPT !.num = Wrap(-b.num, LongBits)])
    IN  [sum EXCEPT !.status =
            Outcome(<<Arith(build, -b.num, LongBits), sum.status>>)]

\* the rationals rtnl(num, den) makes of a few numerators and denominators
\* inside and outside the range of signed int
RtnlInputs ==
    LET nums == {-Pow2(LongBits - 1), 4 - Pow2(IntBits), -3, -1, 0, 1, 2, 3,
                 Pow2(IntBits) - 4, Pow2(IntBits), Pow2(LongBits - 1) - 1}
        dens == {1, 2, 3, Pow2(IntBits) - 4}
        made == {squish("wrap", [num |-> nn, den |-> dd]) :
                     nn \in nums, dd \in dens}
    IN  {[num |-> m.num, den |-> m.den] : m \in {q \in made : q.status = "ok"}}

\* an operation of the library is called on two rationals
InitRtnl ==
    /\ refl = <<>>
    /\ n_threads = 1
    /\ noscale = FALSE
    /\ min_red = 0
    /\ user_flag = <<>>
    /\ osf = <<>>
    /\ Bfac = <<>>
    /\ full = reflist_new
    /\ full_lock = [readers |-> {}, writer |-> 0]
    /\ pc = "none"
    /\ caller = "none"
    /\ i = 0
    /\ done = FALSE
    /\ old_osfs = <<>>
    /\ warned = FALSE
    /\ phase = "none"
    /\ n_started = 0
    /\ n_finished = 0
    /\ wk = [w \in Threads |-> Idle]
    /\ handed = <<>>
    /\ image = [osf |-> One, par |-> <<>>, reflections |-> <<>>]
    /\ shifts = <<>>
    /\ max_shift = Zero
    /\ pr_i = 0
    /\ pr_pc = "none"
    /\ sim = [pc |-> "none"]
    /\ \E build \in Builds, a \in RtnlInputs, b \in RtnlInputs :
          rt = [pc |-> "called", op |-> "none", build |-> build,
                a |-> a, b |-> b,
                r |-> [status |-> "ok", num |-> 0, den |-> 1]]

\* the call ends: the operation returns r, or the process is ended
RtnlEnd(op, r) ==
    [rt EXCEPT !.op = op, !.r = r,
               !.pc = IF r.status = "ok" THEN "returned" ELSE "aborted"]

call_rtnl_mul ==
    /\ rt.pc = "called"
    /\ rt' = RtnlEnd("rtnl_mul", rtnl_mul(rt.build, rt.a, rt.b))
    /\ UNCHANGED <<hrs_vars, pr_vars, sim>>

call_rtnl_div ==
    /\ rt.pc = "called"
    /\ rt' = RtnlEnd("rtnl_div", rtnl_div(rt.build, rt.a, rt.b))
    /\ UNCHANGED <<hrs_vars, pr_vars, sim>>

call_rtnl_add ==
    /\ rt.pc = "called"
    /\ rt' = RtnlEnd("rtnl_add", rtnl_add(rt.build, rt.a, rt.b))
    /\ UNCHANGED <<hrs_vars, pr_vars, sim>>

call_rtnl_sub ==
    /\ rt.pc = "called"
    /\ rt' = RtnlEnd("rtnl_sub", rtnl_sub(rt.build, rt.a, rt.b))
    /\ UNCHANGED <<hrs_vars, pr_vars, sim>>

\* rtnl(num, den), called on the numerators of a and b
call_rtnl ==
    /\ rt.pc = "called"
    /\ rt' = RtnlEnd("rtnl", squish(rt.build,
                                    [num |-> rt.a.num, den |-> rt.b.num]))
    /\ UNCHANGED <<hrs_vars, pr_vars, sim>>

NextRtnl ==
    \/ call_rtnl
    \/ call_rtnl_mul
    \/ call_rtnl_div
    \/ call_rtnl_add
    \/ call_rtnl_sub

SpecRtnl == InitRtnl /\ [][NextRtnl]_vars

(***************************************************************************)
(* Rational matrices: rtnl_mtx_solve, rtnl_mtx_mult, rtnl_mtx_det          *)
(***************************************************************************)

\* rtnl_zero()
rtnl_zero == [status |-> "ok", num |-> 0, den |-> 1]

\* the result r of an operation on a and b: the operation runs only if the
\* process was not ended while a and b were computed
After(a, b, r) == [r EXCEPT !.status = Outcome(<<a.status, b.status, @>>)]

\* rtnl_cmp(a, b): -1, 0, +1 for a<b, a==b, a>b
rtnl_cmp(build, a, b) ==
    LET x1 == a.num * b.den
        x2 == b.num * a.den
        n1 == Wrap(x1, LongBits)
        n2 == Wrap(x2, LongBits)
    IN  After(a, b,
              [status |-> Outcome(<<Arith(build, x1, LongBits),
                                    Arith(build, x2, LongBits),
                                    Arith(build, a.den * b.den, LongBits)>>),
               c |-> IF n1 > n2 THEN 1 ELSE IF n1 < n2 THEN -1 ELSE 0])

\* rtnl_abs(a)
rtnl_abs(build, a) ==
    LET r == squish(build, a)
    IN  After(a, a,
              IF r.num < 0
              THEN [status |-> Outcome(<<r.status,
                                         Arith(build, -r.num, LongBits)>>),
                    num |-> Wrap(-r.num, LongBits), den |-> r.den]
              ELSE r)

\* rtnl_mtx_get(m, ir, j): m->v[j+m->cols*ir]; v has rows*cols elements
\* (the element ix of the array is the element ix+1 of the sequence), and
\* junk is what the memory behind them holds
rtnl_mtx_get(m, junk, ir, j) ==
    IF j + m.cols * ir < m.rows * m.cols THEN m.v[j + m.cols * ir + 1]
    ELSE junk

\* rtnl_mtx_solve, the search for the pivot: for ( i=h; i<m->rows; i++ )
\* with best = (pval, prow) so far
RECURSIVE FindPivot(_, _, _, _, _, _)
FindPivot(build, cm, junk, k, ir, best) ==
    IF ir >= cm.rows THEN best
    ELSE LET x == rtnl_abs(build, rtnl_mtx_get(cm, junk, ir, k))
             c == rtnl_cmp(build, x, best.pval)
             next == [best EXCEPT !.status = Outcome(<<@, c.status>>)]
         IN  FindPivot(build, cm, junk, k, ir + 1,
                       IF c.c > 0 THEN [next EXCEPT !.pval = x, !.prow = ir]
                       ELSE next)

\* rtnl_mtx_solve, "divide and subtract rows below": the element j of row
\* ir after for ( j=0; j<m->cols; j++ )
ElimCell(build, cm, junk, h, ir, j, dval) ==
    LET t == rtnl_mtx_get(cm, junk, ir, j)
        hj == rtnl_mtx_get(cm, junk, h, j)
        p == After(dval, hj, rtnl_mul(build, dval, hj))
    IN  After(t, p, rtnl_sub(build, t, p))

\* rtnl_mtx_solve, back-substitution: the sum of cm[ir][j]*ans[j] for
\* j = ir+1 .. to
RECURSIVE BackSum(_, _, _, _, _)
BackSum(build, cm, ans, ir, to) ==
    IF to <= ir THEN rtnl_zero
    ELSE LET sum == BackSum(build, cm, ans, ir, to - 1)
             ij == rtnl_mtx_get(cm, rtnl_zero, ir, to)
             av == After(ij, ans[to + 1], rtnl_mul(build, ij, ans[to + 1]))
         IN  After(sum, av, rtnl_add(build, sum, av))

\* the first status other than "ok" among the elements of a vector
VecStatus(vec) ==
    IF \E ix \in DOMAIN vec : vec[ix].status # "ok"
    THEN vec[CHOOSE ix \in DOMAIN vec : vec[ix].status # "ok"].status
    ELSE "ok"

\* rtnl_mtx_mult(m, vec, ans), the element ir of ans after the columns
\* 0 .. j-1
RECURSIVE MultSum(_, _, _, _, _)
MultSum(build, m, vec, ir, j) ==
    IF j = 0 THEN rtnl_zero
    ELSE LET sum == MultSum(build, m, vec, ir, j - 1)
             ij == rtnl_mtx_get(m, rtnl_zero, ir, j - 1)
             add == After(ij, vec[j], rtnl_mul(build, ij, vec[j]))
         IN  After(sum, add, rtnl_add(build, sum, add))

rtnl_mtx_mult(build, m, vec) ==
    [ix \in 1 .. m.rows |-> MultSum(build, m, vec, ix - 1, m.cols)]

\* delete_row_and_column(m, di, dj)
delete_row_and_column(m, di, dj) ==
    LET from(at, del) == IF at >= del THEN at + 1 ELSE at
    IN  [rows |-> m.rows - 1, cols |-> m.cols - 1,
         v |-> [ix \in 1 .. ((m.rows - 1) * (m.cols - 1)) |->
                  rtnl_mtx_get(m, rtnl_zero,
                               from((ix - 1) \div (m.cols - 1), di),
                               from((ix - 1) % (m.cols - 1), dj))]]

\* rtnl_mtx_det(m), with cofactor(m, 0, j); DetSum is det after the
\* columns 0 .. j-1 of the expansion along row 0
RECURSIVE rtnl_mtx_det(_, _), DetSum(_, _, _)
DetSum(build, m, j) ==
    IF j = 0 THEN rtnl_zero
    ELSE LET det == DetSum(build, m, j - 1)
             t == [status |-> "ok",
                   num |-> IF (j - 1) % 2 = 1 THEN -1 ELSE 1, den |-> 1]
             d == rtnl_mtx_det(build, delete_row_and_column(m, 0, j - 1))
             C == After(t, d, rtnl_mul(build, t, d))
             mj == rtnl_mtx_get(m, rtnl_zero, 0, j - 1)
             a == After(mj, C, rtnl_mul(build, mj, C))
         IN  After(det, a, rtnl_add(build, det, a))

rtnl_mtx_det(build, m) ==
    IF m.rows = 2
    THEN LET m00 == rtnl_mtx_get(m, rtnl_zero, 0, 0)
             m11 == rtnl_mtx_get(m, rtnl_zero, 1, 1)
             m01 == rtnl_mtx_get(m, rtnl_zero, 0, 1)
             m10 == rtnl_mtx_get(m, rtnl_zero, 1, 0)
             a == After(m00, m11, rtnl_mul(build, m00, m11))
             b == After(m01, m10, rtnl_mul(build, m01, m10))
         IN  After(a, b, rtnl_sub(build, a, b))
    ELSE DetSum(build, m, m.cols)

\* rtnl_mtx_from_intmat: the rows x cols matrix of the integers ints
rtnl_mtx_from_intmat(rows, cols, ints) ==
    [rows |-> rows, cols |-> cols,
     v |-> [ix \in 1 .. (rows * cols) |->
              [status |-> "ok", num |-> ints[ix], den |-> 1]]]

\* the elements of the integer matrices tried
MtxEntries == {-1, 0, 3}

\* the matrices tried: every 1x1 and 2x2 matrix of MtxEntries, two 1x1
\* matrices of other elements, two 3x3 matrices (one singular, one not)
\* and two matrices that are not square
MtxInputs ==
    {rtnl_mtx_from_intmat(1, 1, <<a>>) : a \in MtxEntries \cup {2, 6}}
    \cup {rtnl_mtx_from_intmat(2, 2, <<a, b, c, d>>) :
              a \in MtxEntries, b \in MtxEntries,
              c \in MtxEntries, d \in MtxEntries}
    \cup {rtnl_mtx_from_intmat(3, 3, <<1, 0, 0, 0, 0, 1, 0, 0, 2>>),
          rtnl_mtx_from_intmat(3, 3, <<0, 1, 0, 2, 0, 1, 1, 1, 3>>),
          rtnl_mtx_from_intmat(1, 2, <<1, 2>>),
          rtnl_mtx_from_intmat(2, 1, <<1, 2>>)}

\* the elements of the vectors tried
VecEntries ==
    {[status |-> "ok", num |-> q[1], den |-> q[2]] :
         q \in {<<0, 1>>, <<-1, 2>>, <<19, 3>>}}

\* the matrices of rationals rtnl_mtx_det is tried on as second factor
MtxFactors ==
    {[m EXCEPT !.v[1] = q] :
         m \in {rtnl_mtx_from_intmat(1, 1, <<1>>),
                rtnl_mtx_from_intmat(2, 2, <<1, 2, 3, -1>>),
                rtnl_mtx_from_intmat(2, 2, <<2, 2, 1, 1>>)},
         q \in VecEntries}

\* what the memory behind the elements of a matrix may hold
JunkValues == {rtnl_zero, [status |-> "ok", num |-> 1, den |-> 1]}

\* a function of the library of rational matrices is called on a matrix m
\* and a vector vec; cm, cvec, h, k, ir and ans are the locals of
\* rtnl_mtx_solve
InitMtx ==
    /\ refl = <<>>
    /\ n_threads = 1
    /\ noscale = FALSE
    /\ min_red = 0
    /\ user_flag = <<>>
    /\ osf = <<>>
    /\ Bfac = <<>>
    /\ full = reflist_new
    /\ full_lock = [readers |-> {}, writer |-> 0]
    /\ pc = "none"
    /\ caller = "none"
    /\ i = 0
    /\ done = FALSE
    /\ old_osfs = <<>>
    /\ warned = FALSE
    /\ phase = "none"
    /\ n_started = 0
    /\ n_finished = 0
    /\ wk = [w \in Threads |-> Idle]
    /\ handed = <<>>
    /\ image = [osf |-> One, par |-> <<>>, reflections |-> <<>>]
    /\ shifts = <<>>
    /\ max_shift = Zero
    /\ pr_i = 0
    /\ pr_pc = "none"
    /\ sim = [pc |-> "none"]
    /\ \E build \in Builds, m \in MtxInputs :
          \E vec \in [1 .. m.cols -> VecEntries] :
             rt = [pc |-> "mtx_called", op |-> "none", build |-> build,
                   m |-> m, vec |-> vec, x |-> <<>>, junk |-> rtnl_zero,
                   cm |-> m, cvec |-> vec, h |-> 0, k |-> 0, ir |-> 0,
                   ans |-> vec, status |-> "ok", safe |-> TRUE, ret |-> -1,
                   r |-> <<>>]

\* the process is ended where a status is not "ok"
MtxEnd(s) ==
    IF Outcome(<<s.status, VecStatus(s.vec), VecStatus(s.cm.v),
                 VecStatus(s.cvec), VecStatus(s.ans)>>) = "ok"
    THEN s ELSE [s EXCEPT !.pc = "aborted"]

\* rtnl_mtx_mult(m, vec, ans) is called, and ans becomes the vector of the
\* next call
call_rtnl_mtx_mult ==
    /\ rt.pc = "mtx_called"
    /\ \E s \in {[rt EXCEPT !.op = "rtnl_mtx_mult", !.x = rt.vec,
                            !.vec = rtnl_mtx_mult(rt.build, rt.m, rt.vec),
                            !.pc = "mtx_multiplied"]} :
          rt' = MtxEnd(s)
    /\ UNCHANGED <<hrs_vars, pr_vars, sim>>

\* rtnl_mtx_solve(m, vec, ans) is called: the test for a square matrix and
\* the copies cm and vec
call_rtnl_mtx_solve ==
    /\ rt.pc \in {"mtx_called", "mtx_multiplied"}
    /\ rt' = IF rt.m.rows # rt.m.cols
             THEN [rt EXCEPT !.op = "rtnl_mtx_solve", !.ret = 1,
                             !.pc = "mtx_returned"]
             ELSE [rt EXCEPT !.op = "rtnl_mtx_solve", !.cm = rt.m,
                             !.cvec = rt.vec, !.h = 0, !.k = 0,
                             !.pc = "solve_pivot"]
    /\ UNCHANGED <<hrs_vars, pr_vars, sim>>

\* rtnl_mtx_solve: the test of while ( h<=m->rows && k<=m->cols ), the search
\* for the pivot, "no pivot in this column" and the swap of 'prow' with row
\* h; safe says that every element access so far had its row in [0, rows)
\* and its column in [0, cols)
solve_pivot ==
    /\ rt.pc = "solve_pivot"
    /\ IF ~(rt.h <= rt.m.rows /\ rt.k <= rt.m.cols)
       THEN rt' = [rt EXCEPT !.pc = "solve_back", !.ir = rt.m.rows - 1]
       ELSE \E junk \in IF rt.h < rt.m.rows /\ rt.k >= rt.m.cols
                        THEN JunkValues ELSE {rt.junk} :
            \E piv \in {FindPivot(rt.build, rt.cm, junk, rt.k, rt.h,
                                  [pval |-> rtnl_zero, prow |-> 0,
                                   status |-> "ok"])} :
            \E z \in {rtnl_cmp(rt.build, piv.pval, rtnl_zero)} :
            \E s \in {[rt EXCEPT
                         !.junk = junk,
                         !.status = Outcome(<<piv.status, z.status>>),
                         !.safe = @ /\ (rt.h < rt.m.rows
                                           => rt.k < rt.m.cols)]} :
               LET to(ir) == IF ir = s.h THEN piv.prow
                             ELSE IF ir = piv.prow THEN s.h ELSE ir
               IN  rt' = MtxEnd(
                       IF z.c = 0 THEN [s EXCEPT !.k = @ + 1]
                       ELSE [s EXCEPT
                               !.cm.v = [ix \in DOMAIN @ |->
                                           @[((ix - 1) % s.m.cols)
                                             + s.m.cols
                                               * to((ix - 1) \div s.m.cols)
                                             + 1]],
                               !.cvec = [ix \in DOMAIN @ |-> @[to(ix - 1) + 1]],
                               !.ir = s.h + 1,
                               !.pc = "solve_rows"])
    /\ UNCHANGED <<hrs_vars, pr_vars, sim>>

\* rtnl_mtx_solve, "divide and subtract rows below": one row ir of
\* for ( i=h+1; i<m->rows; i++ ), or its end with h++; k++
solve_rows ==
    /\ rt.pc = "solve_rows"
    /\ IF rt.ir >= rt.m.rows
       THEN rt' = [rt EXCEPT !.h = @ + 1, !.k = @ + 1, !.pc = "solve_pivot"]
       ELSE \E ik \in {rtnl_mtx_get(rt.cm, rt.junk, rt.ir, rt.k)},
               hk \in {rtnl_mtx_get(rt.cm, rt.junk, rt.h, rt.k)} :
            \E dval \in {After(ik, hk, rtnl_div(rt.build, ik, hk))} :
            \E p \in {After(dval, rt.cvec[rt.h + 1],
                            rtnl_mul(rt.build, dval, rt.cvec[rt.h + 1]))} :
               rt' = MtxEnd(
                       [rt EXCEPT
                          !.cm.v = [ix \in DOMAIN @ |->
                                      IF (ix - 1) \div rt.m.cols = rt.ir
                                      THEN ElimCell(rt.build, rt.cm, rt.junk,
                                                    rt.h, rt.ir,
                                                    (ix - 1) % rt.m.cols, dval)
                                      ELSE @[ix]],
                          !.cvec[rt.ir + 1] =
                              After(@, p, rtnl_sub(rt.build, @, p)),
                          !.safe = @ /\ rt.k < rt.m.cols,
                          !.ir = @ + 1])
    /\ UNCHANGED <<hrs_vars, pr_vars, sim>>

\* rtnl_mtx_solve, back-substitution: one row ir of
\* for ( i=m->rows-1; i>=0; i-- ), or its end with return 0
solve_back ==
    /\ rt.pc = "solve_back"
    /\ IF rt.ir < 0
       THEN rt' = [rt EXCEPT !.ret = 0, !.pc = "mtx_returned"]
       ELSE \E sum \in {BackSum(rt.build, rt.cm, rt.ans, rt.ir,
                                rt.m.cols - 1)} :
            \E rhs \in {After(rt.cvec[rt.ir + 1], sum,
                              rtnl_sub(rt.build, rt.cvec[rt.ir + 1], sum))},
               ii \in {rtnl_mtx_get(rt.cm, rt.junk, rt.ir, rt.ir)} :
               rt' = MtxEnd(
                       [rt EXCEPT
                          !.ans[rt.ir + 1] =
                              After(rhs, ii, rtnl_div(rt.build, rhs, ii)),
                          !.ir = @ - 1])
    /\ UNCHANGED <<hrs_vars, pr_vars, sim>>

\* the product m*B of two square matrices, column by column with
\* rtnl_mtx_mult
MtxProduct(build, m, B) ==
    [B EXCEPT
       !.v = [ix \in DOMAIN @ |->
                rtnl_mtx_mult(build, m,
                              [ir \in 1 .. B.rows |->
                                  rtnl_mtx_get(B, rtnl_zero, ir - 1,
                                               (ix - 1) % B.cols)])
                    [((ix - 1) \div B.cols) + 1]]]

\* rtnl_mtx_det is called on m, on a second matrix B and on m*B
call_rtnl_mtx_det ==
    /\ rt.pc = "mtx_called"
    /\ rt.m.rows = rt.m.cols
    /\ \E B \in {f \in MtxFactors : f.rows = rt.m.rows} :
       \E r \in {[B |-> B,
                  det_m |-> rtnl_mtx_det(rt.build, rt.m),
                  det_B |-> rtnl_mtx_det(rt.build, B),
                  det_mB |-> rtnl_mtx_det(rt.build,
                                          MtxProduct(rt.build, rt.m, B))]} :
          rt' = [rt EXCEPT !.op = "rtnl_mtx_det", !.r = r,
                           !.pc = IF Outcome(<<r.det_m.status, r.det_B.status,
                                               r.det_mB.status>>) = "ok"
                                  THEN "mtx_returned" ELSE "aborted"]
    /\ UNCHANGED <<hrs_vars, pr_vars, sim>>

NextMtx ==
    \/ call_rtnl_mtx_mult
    \/ call_rtnl_mtx_solve
    \/ solve_pivot
    \/ solve_rows
    \/ solve_back
    \/ call_rtnl_mtx_det

SpecMtx == InitMtx /\ [][NextMtx]_vars

(***************************************************************************)
(* partial_sim: run_job and calculate_partials                             *)
(***************************************************************************)

\* the intensities fabs(gaussian_noise(0.0, 1000.0)) may give
RandomIntensities == {One, D(1, 2)}

\* the reflections find_intersections may give for a random orientation:
\* lists of indices
PsImages == {<<1>>, <<3>>, <<1, 2>>, <<2, 3>>}

\* qargs.n_to_do: the number of patterns to simulate
n_to_do == 2

\* a worker of partial_sim with no job
PsIdle == [pc |-> "idle", todo |-> <<>>, k |-> 0, rfull |-> NULL,
           If |-> Zero, red |-> 0]

\* main: the reference list is empty (random intensities) or holds the
\* intensities read from a file, and run_threads starts the workers; sets
\* lists the entries set_int was called on
InitPS ==
    /\ refl = <<>>
    /\ n_threads = 1
    /\ noscale = FALSE
    /\ min_red = 0
    /\ user_flag = <<>>
    /\ osf = <<>>
    /\ Bfac = <<>>
    /\ full = reflist_new
    /\ full_lock = [readers |-> {}, writer |-> 0]
    /\ pc = "none"
    /\ caller = "none"
    /\ i = 0
    /\ done = FALSE
    /\ old_osfs = <<>>
    /\ warned = FALSE
    /\ phase = "none"
    /\ n_started = 0
    /\ n_finished = 0
    /\ wk = [w \in Threads |-> Idle]
    /\ handed = <<>>
    /\ image = [osf |-> One, par |-> <<>>, reflections |-> <<>>]
    /\ shifts = <<>>
    /\ max_shift = Zero
    /\ pr_i = 0
    /\ pr_pc = "none"
    /\ rt = [pc |-> "none"]
    /\ \E random_intensities \in BOOLEAN :
          sim = [pc |-> "run_threads",
                random_intensities |-> random_intensities,
                full |-> IF random_intensities THEN reflist_new
                         ELSE [reflist_new EXCEPT
                                 ![1] = <<[NewEntry EXCEPT
                                             !.intensity = One,
                                             !.redundancy = 1]>>],
                full_lock |-> 0, n_started |-> 0, sets |-> <<>>,
                wk |-> [w \in Threads |-> PsIdle]]

\* create_job and the start of run_job: the worker gets the reflections of a
\* randomly oriented pattern
run_job(w) ==
    /\ sim.pc = "run_threads"
    /\ sim.wk[w].pc = "idle"
    /\ sim.n_started < n_to_do
    /\ \E reflections \in PsImages :
          sim' = [sim EXCEPT !.n_started = @ + 1,
                           !.wk[w] = [PsIdle EXCEPT !.pc = "find",
                                                    !.todo = reflections]]
    /\ UNCHANGED <<hrs_vars, pr_vars, rt>>

\* calculate_partials: the loop test, get_asymm and find_refl under
\* full_lock, and the branches on rfull == NULL and random_intensities
cp_find(w) ==
    /\ sim.pc = "run_threads"
    /\ sim.wk[w].pc = "find"
    /\ IF sim.wk[w].todo = <<>>
       THEN sim' = [sim EXCEPT !.wk[w] = PsIdle]
       ELSE /\ sim.full_lock = 0
            /\ \E k \in {get_asymm(Head(sim.wk[w].todo))} :
               \E rfull \in {find_refl(sim.full, k)} :
                  sim' = [sim EXCEPT
                           !.wk[w].k = k,
                           !.wk[w].rfull = rfull,
                           !.wk[w].If = Zero,
                           !.wk[w].pc = IF rfull # NULL THEN "use"
                                        ELSE IF sim.random_intensities
                                             THEN "create" ELSE "store"]
    /\ UNCHANGED <<hrs_vars, pr_vars, rt>>

\* calculate_partials, rfull == NULL: pthread_mutex_lock(full_lock)
cp_lock(w) ==
    /\ sim.pc = "run_threads"
    /\ sim.wk[w].pc = "create"
    /\ sim.full_lock = 0
    /\ sim' = [sim EXCEPT !.full_lock = w, !.wk[w].pc = "add"]
    /\ UNCHANGED <<hrs_vars, pr_vars, rt>>

\* calculate_partials, rfull == NULL: rfull = add_refl(full, h, k, l)
cp_add(w) ==
    /\ sim.pc = "run_threads"
    /\ sim.wk[w].pc = "add"
    /\ sim' = [sim EXCEPT
                !.full = add_refl(@, sim.wk[w].k),
                !.wk[w].rfull = <<sim.wk[w].k, Len(sim.full[sim.wk[w].k]) + 1>>,
                !.wk[w].pc = "set"]
    /\ UNCHANGED <<hrs_vars, pr_vars, rt>>

\* calculate_partials, rfull == NULL: set_int(rfull, If) with a random If,
\* set_redundancy(rfull, 1) and pthread_mutex_unlock(full_lock)
cp_set(w) ==
    /\ sim.pc = "run_threads"
    /\ sim.wk[w].pc = "set"
    /\ \E If \in RandomIntensities :
          sim' = [sim EXCEPT
                   !.full[sim.wk[w].rfull[1]][sim.wk[w].rfull[2]] =
                       [@ EXCEPT !.intensity = If, !.redundancy = 1],
                   !.sets = Append(@, sim.wk[w].rfull),
                   !.full_lock = 0,
                   !.wk[w].If = If,
                   !.wk[w].pc = "store"]
    /\ UNCHANGED <<hrs_vars, pr_vars, rt>>

\* calculate_partials, rfull != NULL: If = get_intensity(rfull) and
\* red = get_redundancy(rfull)
cp_use(w) ==
    /\ sim.pc = "run_threads"
    /\ sim.wk[w].pc = "use"
    /\ sim' = [sim EXCEPT
                !.wk[w].If = Entry(sim.full, sim.wk[w].rfull).intensity,
                !.wk[w].red = Entry(sim.full, sim.wk[w].rfull).redundancy,
                !.wk[w].pc = IF sim.random_intensities THEN "bump"
                             ELSE "store"]
    /\ UNCHANGED <<hrs_vars, pr_vars, rt>>

\* calculate_partials, rfull != NULL: set_redundancy(rfull, red+1)
cp_bump(w) ==
    /\ sim.pc = "run_threads"
    /\ sim.wk[w].pc = "bump"
    /\ sim' = [sim EXCEPT
                !.full[sim.wk[w].rfull[1]][sim.wk[w].rfull[2]].redundancy =
                    sim.wk[w].red + 1,
                !.wk[w].pc = "store"]
    /\ UNCHANGED <<hrs_vars, pr_vars, rt>>

\* calculate_partials: Ip = osf * p * If with noise is stored in the
\* reflection of the pattern, and the loop goes to the next reflection
cp_store(w) ==
    /\ sim.pc = "run_threads"
    /\ sim.wk[w].pc = "store"
    /\ sim' = [sim EXCEPT !.wk[w].todo = Tail(@), !.wk[w].pc = "find"]
    /\ UNCHANGED <<hrs_vars, pr_vars, rt>>

NextPS ==
    \E w \in Threads :
        \/ run_job(w)
        \/ cp_find(w)
        \/ cp_lock(w)
        \/ cp_add(w)
        \/ cp_set(w)
        \/ cp_use(w)
        \/ cp_bump(w)
        \/ cp_store(w)

SpecPS == InitPS /\ [][NextPS]_vars

(***************************************************************************)
(* Properties of the merge                                                 *)
(***************************************************************************)

\* lsq_intensities has merged every crystal and no crystal has changed since
MergeSettled ==
    \/ phase = "merge" /\ PoolDone
    \/ pc \in {"cycle_begin", "cycle_end", "esds"}

\* the observations of crystal c with key k and partiality >= MIN_PART_MERGE
KeptObs(c, k) ==
    SelectSeq(refl[c], LAMBDA o : o.key = k /\ ~DLt(o.p, MIN_PART_MERGE))

\* the scaled intensities of the observations with key k of the crystals
\* c < m with flag 0, in the order of the crystals
RECURSIVE MergedTerms(_, _)
MergedTerms(k, m) ==
    IF m = 0 THEN <<>>
    ELSE LET c == m - 1
             own == IF user_flag[c] # 0 THEN <<>>
                    ELSE [j \in 1 .. Len(KeptObs(c, k)) |->
                            MergeTerm(KeptObs(c, k)[j], osf[c], Bfac[c])]
         IN  MergedTerms(k, c) \o own

\* t[1] + ... + t[m], added from the left
RECURSIVE SumSeq(_, _)
SumSeq(t, m) == IF m = 0 THEN Zero ELSE DAdd(SumSeq(t, m - 1), t[m])

NoDuplicateKeys == \A k \in Keys : Len(full[k]) <= 1

\* a worker that missed under the read lock holds the write lock and has
\* found the entry another worker created in between
NoDuplicateKeysWitness ==
    \E w \in Threads :
        /\ wk[w].pc = "m_lock"
        /\ full_lock.writer = w
        /\ ~wk[w].isnew
        /\ Len(full[wk[w].f[1]]) = 1

\* the workers between lock_reflection(f) and unlock_reflection(f)
InEntry(w) ==
    wk[w].pc \in {"m_unlock", "m_get", "m_set", "m_unlock_refl",
                  "e_get", "e_set", "e_unlock_refl"}

\* C3: per-entry mutual exclusion.  In the merge pass and in the ESD pass a
\* worker that reads or writes temp1, temp2 or redundancy of an entry holds
\* that entry's lock, and no two workers are between lock_reflection and
\* unlock_reflection of the same entry.
EntryMutualExclusion ==
    /\ \A w \in Threads : InEntry(w) => Entry(full, wk[w].f).lock = w
    /\ \A v, w \in Threads :
          InEntry(v) /\ InEntry(w) /\ wk[v].f = wk[w].f => v = w

\* in the ESD pass one worker is about to write temp1 of an entry while
\* another waits in lock_reflection for the same entry
EntryMutualExclusionWitness ==
    \E v, w \in Threads :
        /\ wk[v].pc = "e_set"
        /\ wk[w].pc = "e_lock"
        /\ wk[v].f = wk[w].f

\* C4: table lock discipline during the merge.  add_refl is executed only
\* by the worker holding the write lock of the table, every find_refl of
\* the merge is executed holding the read or the write lock, and so no
\* find_refl runs while another worker is in add_refl.
TableLockDiscipline ==
    /\ \A w \in Threads :
          /\ wk[w].pc = "m_find" => w \in full_lock.readers
          /\ wk[w].pc = "m_find2" => full_lock.writer = w
    /\ full_lock.writer # 0 => full_lock.readers = {}
    /\ \A v, w \in Threads :
          ~(wk[v].pc = "m_find2" /\ wk[w].pc \in {"m_find", "m_find2"}
            /\ v # w)

\* one worker is about to add an entry under the write lock while another
\* waits for the read lock
TableLockDisciplineWitness ==
    \E v, w \in Threads :
        /\ wk[v].pc = "m_find2"
        /\ find_refl(full, Obs(v).key) = NULL
        /\ wk[w].pc = "m_loop"
        /\ wk[w].it <= Len(refl[wk[w].cr])
        /\ ~DLt(Obs(w).p, MIN_PART_MERGE)

(***************************************************************************)
(* Properties of the phases                                                *)
(***************************************************************************)

MergePcs ==
    {"merge", "m_loop", "m_find", "m_swap", "m_wrlock", "m_find2", "m_lock",
     "m_unlock", "m_get", "m_set", "m_unlock_refl"}

EsdPcs == {"esd", "e_loop", "e_lock", "e_get", "e_set", "e_unlock_refl"}

\* every entry of the reference list
Entries == {<<k, j>> : k \in Keys, j \in 1 .. 2}
           \cap {f \in Keys \X (1 .. 2) : f[2] <= Len(full[f[1]])}

\* C5: the phases never overlap.  A scale job runs only while
\* scale_intensities waits in iterate_scale, after every merge job of the
\* merge before it has finished and Ih = temp1/temp2 has been set for every
\* key; a merge job runs only while scale_intensities waits in
\* lsq_intensities, so after every scale job, reject_outliers and the
\* normalisation of the macrocycle have finished.
PhasesNeverOverlap ==
    /\ \A w \in Threads :
          /\ wk[w].pc = "scale" => pc = "scale_wait" /\ phase = "scale"
          /\ wk[w].pc \in MergePcs => pc = "lsq_wait" /\ phase = "merge"
          /\ wk[w].pc \in EsdPcs => pc = "esd_wait" /\ phase = "esd"
    /\ phase = "scale" =>
          \A f \in Entries :
              /\ Entry(full, f).lock = 0
              /\ Entry(full, f).intensity
                    = DDiv(Entry(full, f).temp1, Entry(full, f).temp2)

\* a scale job of the second macrocycle runs against a list of two merged
\* keys
PhasesNeverOverlapWitness ==
    /\ i = 1
    /\ \E w \in Threads : wk[w].pc = "scale"
    /\ Cardinality(Entries) = 2
    /\ n_threads = 2

\* C6: the scale phase reads the reference and each job touches only its
\* own crystal.  While the scale jobs run, no step adds, removes or writes
\* an entry of the reference, and the flag, G or B of a crystal changes
\* only in the step of the job that was given this crystal.
ScaleJobFrame ==
    [][phase = "scale" /\ pc = "scale_wait" =>
          /\ full' = full
          /\ \A c \in Crystals :
                (user_flag'[c] # user_flag[c] \/ osf'[c] # osf[c]
                    \/ Bfac'[c] # Bfac[c])
                => \E w \in Threads :
                       /\ wk[w].pc = "scale"
                       /\ wk[w].cr = c
                       /\ wk'[w].pc = "idle"]_vars

\* with two scale jobs running, one crystal already has a new G and B
ScaleJobFrameWitness ==
    /\ phase = "scale"
    /\ \E w \in Threads : wk[w].pc = "scale" /\ wk[w].cr = 1
    /\ user_flag[0] = 0
    /\ osf[0] # old_osfs[0]
    /\ Bfac[0] # Zero
    /\ n_finished = 1

\* C7: job = crystal.  In each of the scale, merge and ESD phases, with the
\* pool calling the create-job callback one call at a time and creating n
\* jobs, no crystal is handed to two jobs, no two workers hold the same
\* crystal, and when the pool is done every crystal 0 .. n-1 was handed to
\* exactly one job.
JobIsCrystal ==
    /\ \A c \in Crystals : handed[c] <= 1
    /\ \A v, w \in Threads :
          wk[v].pc # "idle" /\ wk[w].pc # "idle" /\ wk[v].cr = wk[w].cr
          => v = w
    /\ \A w \in Threads : wk[w].pc # "idle" => wk[w].cr \in Crystals
    /\ phase # "none" /\ PoolDone => \A c \in Crystals : handed[c] = 1

\* the pool is done with the ESD jobs of three crystals, run by two workers
JobIsCrystalWitness ==
    /\ phase = "esd"
    /\ PoolDone
    /\ n = 3
    /\ n_threads = 2
    /\ n_started = 3

\* the squared deviations the ESD pass adds to the entry of key k for the
\* crystals c < m with flag 0, in the order of the crystals
RECURSIVE EsdTerms(_, _)
EsdTerms(k, m) ==
    IF m = 0 THEN <<>>
    ELSE LET c == m - 1
             own == IF user_flag[c] # 0 THEN <<>>
                    ELSE [j \in 1 .. Len(KeptObs(c, k)) |->
                            EsdTerm(KeptObs(c, k)[j], osf[c],
                                    full[k][1].intensity)]
         IN  EsdTerms(k, c) \o own

\* C8: flagged crystals are skipped everywhere.  A scale job whose crystal
\* has a non-zero flag leaves the flag, G and B of every crystal as they
\* were; only crystals with flag 0 are ever inside the loop of a merge or
\* an ESD job; and when the ESD jobs are done the accumulator temp1 of
\* every entry is the sum over the crystals with flag 0 alone.
FlaggedSkipped ==
    /\ [](\A w \in Threads :
             wk[w].pc \in (MergePcs \cup EsdPcs) \ {"merge", "esd"}
             => user_flag[wk[w].cr] = 0)
    /\ [](phase = "esd" /\ PoolDone =>
             \A f \in Entries :
                 LET t == EsdTerms(f[1], n)
                 IN  Entry(full, f).temp1 = SumSeq(t, Len(t)))
    /\ [][\A w \in Threads :
             wk[w].pc = "scale" /\ user_flag[wk[w].cr] # 0
                 /\ wk'[w].pc = "idle"
             => crystal_vars' = crystal_vars]_vars

\* after a macrocycle, the ESD jobs are done for a crystal that came in
\* with flag 2 and one with flag 0 that observe the same key
FlaggedSkippedWitness ==
    /\ phase = "esd"
    /\ PoolDone
    /\ i >= 1
    /\ \E c, d \in Crystals :
          /\ user_flag[c] = 2
          /\ user_flag[d] = 0
          /\ \E k \in Keys : KeptObs(c, k) # <<>> /\ KeptObs(d, k) # <<>>

(***************************************************************************)
(* Properties of outlier rejection and normalisation                       *)
(***************************************************************************)

\* G lies in the interval (0, 10]
InOsfRange(G) == ~isnan(G) /\ DGt(G, Zero) /\ DLe(G, OSF_MAX)

\* C9: the outlier rule.  After reject_outliers, every crystal whose G is
\* not in (0, 10] (G = 0, a negative G and NaN included) or whose |B|
\* exceeds the limit has a non-zero flag.
OutlierRule ==
    pc = "normalise" =>
        \A c \in Crystals :
            ~InOsfRange(osf[c]) \/ DGt(fabs(Bfac[c]), BFAC_MAX)
            => user_flag[c] # 0

\* the mean of G over the crystals with flag 0
MeanOsf == DDiv(SumUnflagged(osf, n), Dbl(NUnflagged))

\* C10: normalisation.  After the normalisation step of a macrocycle in
\* which at least one crystal has flag 0, the mean of G over the crystals
\* with flag 0 is 1 (to within a hundredth, which leaves room for the
\* rounding of the division).
NormalisedMeanIsOne ==
    pc = "converge" /\ NUnflagged >= 1 =>
        /\ ~isnan(MeanOsf)
        /\ DLt(fabs(DSub(MeanOsf, One)), D(1, 100))

(***************************************************************************)
(* Properties of the macrocycle loop                                       *)
(***************************************************************************)

\* scale_intensities is inside a macrocycle, before its convergence test
InCycle == pc \in {"scale_wait", "reject", "normalise", "converge"}

\* the mean of |G_new - G_old| over the crystals with flag 0
MeanOsfChange ==
    DDiv(SumUnflagged([c \in Crystals |-> fabs(DSub(osf[c], old_osfs[c]))], n),
         Dbl(NUnflagged))

\* C11: the scaling loop terminates.  The count i of macrocycles run never
\* decreases and never exceeds MAX_CYCLES, a macrocycle is only run while
\* i < MAX_CYCLES, with scaling at least one macrocycle has been run when
\* scale_intensities returns, and a further macrocycle is begun only by
\* counting the one that ended, and only when in it the mean of
\* |G_new - G_old| over the crystals with flag 0 was not below 0.01.
ScalingTerminates ==
    /\ [](i \in 0 .. MAX_CYCLES)
    /\ [](InCycle => i < MAX_CYCLES)
    /\ [](pc = "returned" /\ ~noscale => i >= 1)
    /\ [][i' >= i]_vars
    /\ [][pc = "cycle_end" /\ pc' = "cycle_begin"
            => i' = i + 1 /\ ~DLt(MeanOsfChange, CONV_LIMIT)]_vars

\* scale_intensities has returned after a macrocycle that converged, which
\* was neither the first nor the last one allowed
ScalingTerminatesWitness ==
    /\ pc = "returned"
    /\ done
    /\ i > 1
    /\ i < MAX_CYCLES

\* C12: the "Scaling did not converge" warning is emitted exactly when
\* MAX_CYCLES macrocycles were run without the convergence test having
\* succeeded, never when the last allowed macrocycle converged.
WarningOnlyWithoutConvergence ==
    pc \in {"esds", "esd_wait", "returned"} /\ ~noscale
        => (warned <=> (i = MAX_CYCLES /\ ~done))

\* the observations <<c, j>> that a merge of the crystals as they are now
\* adds to key k
ContribObs(k) ==
    {cj \in Crystals \X (1 .. 2) :
        user_flag[cj[1]] = 0 /\ cj[2] <= Len(KeptObs(cj[1], k))}

\* the Ih that a merge of the crystals as they are now gives key k
MergedIntensity(k) ==
    LET t == MergedTerms(k, n)
    IN  DDiv(SumSeq(t, Len(t)), Dbl(Len(t)))

\* calculate_esds has been reached
AtEsds == pc \in {"esds", "esd_wait", "returned"}

\* C13: the returned reference is consistent with the final crystal state.
\* At the call of calculate_esds and at the return the list holds exactly
\* the keys and the intensities that a merge of the crystals as they are now
\* produces;
\* no crystal's G, B or flag changes from the start of the last merge to
\* the return; and once the ESD pass has begun, scale_intensities goes on to
\* nothing but its return.
ReturnedIsFinalMerge ==
    /\ [](pc \in {"esds", "returned"} =>
            \A k \in Keys :
                IF MergedTerms(k, n) = <<>> THEN full[k] = <<>>
                ELSE /\ Len(full[k]) = 1
                     /\ full[k][1].intensity = MergedIntensity(k))
    /\ [][(AtEsds \/ pc = "cycle_end"
                  \/ (pc = "lsq_wait" /\ caller # "initial"))
            => UNCHANGED crystal_vars]_vars
    /\ [][(pc \in {"esd_wait", "returned"})
            => pc' \in {"esd_wait", "returned"}]_vars

\* scale_intensities has returned after two macrocycles or more that left
\* some crystal with a scale factor other than 1
ReturnedIsFinalMergeWitness ==
    /\ pc = "returned"
    /\ i >= 2
    /\ \E c \in Crystals : user_flag[c] = 0 /\ osf[c] # One
    /\ \E k \in Keys : full[k] # <<>>

\* C14: the reference is recreated from scratch at every merge.  Every call
\* of lsq_intensities starts from an empty table, and when the merge jobs
\* are done a key has exactly as many contributions (redundancy, and the
\* denominator temp2) as the crystals with flag 0 give it in this merge; a
\* key that no crystal contributed to in this merge is absent.
FreshReference ==
    /\ [][pc # "lsq_wait" /\ pc' = "lsq_wait" => full' = reflist_new]_vars
    /\ [](phase = "merge" /\ PoolDone =>
            \A k \in Keys :
                IF ContribObs(k) = {} THEN full[k] = <<>>
                ELSE /\ full[k] # <<>>
                     /\ full[k][1].redundancy = Cardinality(ContribObs(k))
                     /\ full[k][1].temp2 = Dbl(full[k][1].redundancy))

\* the merge of the first macrocycle is done and has left out a key of a
\* crystal that this macrocycle flagged; the crystal entered with flag 0
\* (it has the scale factor of that entry state), so the key was in the
\* reference of the initial merge
FreshReferenceWitness ==
    /\ phase = "merge"
    /\ PoolDone
    /\ caller = "cycle"
    /\ i = 0
    /\ \E k \in Keys :
          /\ full[k] = <<>>
          /\ \E c \in Crystals :
                /\ user_flag[c] = 1
                /\ old_osfs[c] = One
                /\ KeptObs(c, k) # <<>>

(***************************************************************************)
(* Properties of the returned list                                         *)
(***************************************************************************)

\* C15 as stated: every key of the list returned by scale_intensities has
\* redundancy >= 1, whatever min_redundancy is.
RedundancyAtLeastOne ==
    pc = "returned" =>
        \A k \in Keys : \A j \in 1 .. Len(full[k]) : full[k][j].redundancy >= 1

\* C15: every key of the merged list has redundancy >= 1 when it is handed
\* to calculate_esds; in the list that scale_intensities returns a key has
\* redundancy 0 or at least min_redundancy, so that every redundancy is
\* >= 1 when min_redundancy <= 1.
MergedRedundancy ==
    \A k \in Keys : \A j \in 1 .. Len(full[k]) :
        /\ pc \in {"esds", "esd_wait"} => full[k][j].redundancy >= 1
        /\ pc = "returned" =>
              \/ full[k][j].redundancy = 0 /\ min_red > 1
              \/ full[k][j].redundancy >= 1 /\ full[k][j].redundancy >= min_red

\* scale_intensities has returned, with scaling and a min_redundancy of 1,
\* a key that one observation was merged into
MergedRedundancyWitness ==
    /\ pc = "returned"
    /\ ~noscale
    /\ min_red = 1
    /\ \E k \in Keys : full[k] # <<>> /\ full[k][1].redundancy = 1

\* C16: suppression.  While calculate_esds runs no key is added or removed
\* and no I_full changes; when it is done an entry whose merge count is
\* below min_redundancy is still in the list, with redundancy 0, and an
\* entry with a merge count of min_redundancy or more has that count as its
\* redundancy.
Suppression ==
    /\ [][(pc \in {"esds", "esd_wait"}) =>
            \A k \in Keys :
                /\ Len(full'[k]) = Len(full[k])
                /\ \A j \in 1 .. Len(full[k]) :
                      full'[k][j].intensity = full[k][j].intensity]_vars
    /\ [](pc = "returned" =>
            \A k \in Keys :
                LET cnt == Len(MergedTerms(k, n))
                IN  IF cnt = 0 THEN full[k] = <<>>
                    ELSE /\ Len(full[k]) = 1
                         /\ full[k][1].redundancy =
                               IF cnt < min_red THEN 0 ELSE cnt)

\* calculate_esds has run with min_redundancy 2 on a list with a key merged
\* from one observation, now suppressed, and a key merged from two or more
SuppressionWitness ==
    /\ pc = "returned"
    /\ min_red = 2
    /\ \E k \in Keys :
          /\ Len(MergedTerms(k, n)) = 1
          /\ full[k] # <<>>
          /\ full[k][1].redundancy = 0
    /\ \E k \in Keys : full[k] # <<>> /\ full[k][1].redundancy >= 2

\* the case of the merge identity law for key k: every contributing
\* crystal has G = 1, B = 0 and every contributing observation has p = 1,
\* L = 1 and the intensity I
IdentityCase(k, I) ==
    /\ ContribObs(k) # {}
    /\ \A cj \in ContribObs(k) :
          LET o == KeptObs(cj[1], k)[cj[2]]
          IN  /\ osf[cj[1]] = One
              /\ Bfac[cj[1]] = Zero
              /\ o.p = One
              /\ o.L = One
              /\ o.I = I

\* the intensities observed
Intensities == {refl[c][j].I : c \in Crystals, j \in 1 .. 2}

\* lsq_intensities has returned the Ih of a merge of the crystals as they
\* are now
IntensitiesSet == pc \in {"cycle_begin", "cycle_end", "esds"}

\* C17 as stated: under the conditions of the merge identity law I_full of
\* the key equals I exactly, for any number of crystals.
MergeIdentityExact ==
    IntensitiesSet =>
        \A k \in Keys : \A I \in Intensities :
            IdentityCase(k, I) => full[k][1].intensity = I

\* I added N times from the left
RECURSIVE Repeated(_, _)
Repeated(I, N) == IF N = 0 THEN Zero ELSE DAdd(Repeated(I, N - 1), I)

\* C17: merge identity law.  If every contributing crystal has G = 1, B = 0
\* and every contributing observation of a key has p = 1, L = 1 and the
\* same intensity I, then after the merge, for any worker interleaving,
\* I_full of the key is the rounded sum of the N contributions divided by
\* N, which is I itself for N <= 2.
MergeIdentity ==
    IntensitiesSet =>
        \A k \in Keys : \A I \in Intensities :
            IdentityCase(k, I) =>
                LET N == Cardinality(ContribObs(k))
                IN  /\ full[k][1].redundancy = N
                    /\ full[k][1].intensity = DDiv(Repeated(I, N), Dbl(N))
                    /\ N <= 2 => full[k][1].intensity = I

\* two workers or more have merged three crystals that agree on a key
MergeIdentityWitness ==
    /\ pc = "cycle_begin"
    /\ i = 0
    /\ n_threads >= 2
    /\ \E k \in Keys : \E I \in Intensities :
          IdentityCase(k, I) /\ Cardinality(ContribObs(k)) = 3

(***************************************************************************)
(* Properties of the scaling model                                         *)
(***************************************************************************)

\* all the scaled intensities that the merge added to key k are equal
EqualContributions(k) ==
    LET t == MergedTerms(k, n)
    IN  t # <<>> /\ \A a, b \in 1 .. Len(t) : t[a] = t[b]

\* C18: the ESD pass accumulates the squared differences between I_full and
\* the scaled intensities that the merge accumulated, so that a key whose
\* contributions all have the same scaled intensity is returned with the
\* accumulated sum and sigma_full 0, whatever G is.
EqualContributionsHaveNoEsd ==
    pc = "returned" =>
        \A k \in Keys :
            EqualContributions(k) =>
                /\ full[k][1].temp1 = Zero
                /\ full[k][1].esd = Zero

\* the scaled intensity of observation o as the scale job models it:
\* I_obs/(p*L) * G * exp(2*B*s^2), with s^2 the regressor x = res*res
ModelTerm(o, G, B) ==
    LET res == resolution(o.key)
        corr == DMul(o.p, o.L)
        Ihl == DDiv(o.I, corr)
    IN  DMul(DMul(Ihl, G), exp(DMul(DMul(Dbl(2), B), DMul(res, res))))

\* the scaled intensities of the observations with key k of the crystals
\* c < m with flag 0 as the scale model gives them, in the order of the
\* crystals
RECURSIVE ModelTerms(_, _)
ModelTerms(k, m) ==
    IF m = 0 THEN <<>>
    ELSE LET c == m - 1
             own == IF user_flag[c] # 0 THEN <<>>
                    ELSE [j \in 1 .. Len(KeptObs(c, k)) |->
                            ModelTerm(KeptObs(c, k)[j], osf[c], Bfac[c])]
         IN  ModelTerms(k, c) \o own

\* C19: the correction applied in the merge is the inverse of the model
\* fitted by the scaler: once the merge jobs are done, the numerator of a
\* key is the sum of I_obs/(p*L) * G * exp(2*B*s^2) over its contributions,
\* with the squared resolution s^2 that the scale job uses as its regressor.
MergeInvertsScaleModel ==
    MergeSettled =>
        \A k \in Keys :
            full[k] # <<>> =>
                full[k][1].temp1 = SumSeq(ModelTerms(k, n),
                                          Len(ModelTerms(k, n)))

\* the scale factors g = 2^e that exp() can return
PowersOfTwo == {<<1, e>> : e \in (-ExpMax) .. ExpMax}

\* every observation of crystal c is g times the reference, I_obs =
\* g*p*L*I_ref, and two or more of them qualify for scaling
FitsScale(c, g) ==
    /\ Len(ScalePoints(full, c, 1)) >= 2
    /\ \A j \in 1 .. Len(refl[c]) :
          LET o == refl[c][j]
              r == find_refl(full, o.key)
          IN  /\ r # NULL
              /\ DDiv(DDiv(o.I, DMul(o.p, o.L)), Entry(full, r).intensity) = g

Qualifies(reference, o) ==
    LET r == find_refl(reference, o.key)
        ratio == DDiv(DDiv(o.I, DMul(o.p, o.L)), Entry(reference, r).intensity)
    IN  /\ DGe(o.p, MIN_PART_SCALE)
        /\ DGe(o.I, DMul(SIGMA_CUT, o.esd))
        /\ r # NULL
        /\ DGt(ratio, Zero)
        /\ IsFinite(ratio)

\* the observations of crystal c that qualify
QualifyingObs(reference, c) ==
    {j \in 1 .. Len(refl[c]) : Qualifies(reference, refl[c][j])}

\* the linear fit of crystal c against the reference fails
FitFails(reference, c) ==
    LET fit == gsl_fit_wlinear(ScalePoints(reference, c, 1))
    IN  fit.r # 0 \/ isnan(fit.c0)

\* C21: too few observations.  A scale job on a crystal with flag 0 that
\* has fewer than 2 qualifying observations, or whose linear fit fails,
\* sets the crystal's flag to 1 and leaves every G and B as it was; and
\* when the scale jobs are done every crystal was given its job, and each
\* crystal that still has flag 0 carries the G and B of its own fit.
TooFewObservations ==
    /\ [][\A w \in Threads :
             (/\ wk[w].pc = "scale"
              /\ wk'[w].pc = "idle"
              /\ user_flag[wk[w].cr] = 0
              /\ \/ Cardinality(QualifyingObs(full, wk[w].cr)) < 2
                 \/ FitFails(full, wk[w].cr))
             => /\ user_flag' = [user_flag EXCEPT ![wk[w].cr] = 1]
                /\ osf' = osf
                /\ Bfac' = Bfac]_vars
    /\ [](phase = "scale" /\ PoolDone =>
             \A c \in Crystals :
                 /\ handed[c] = 1
                 /\ user_flag[c] = 0 =>
                        ScaleResult(full, c) = <<0, osf[c], Bfac[c]>>)

\* the scale jobs of a macrocycle are done: the crystal that observed one
\* key twice has two qualifying observations and a failed fit, another has
\* one qualifying observation, both have flag 1 and the G and B they had,
\* and the third crystal has been given a new G
TooFewObservationsWitness ==
    /\ phase = "scale"
    /\ PoolDone
    /\ \E c, d, e \in Crystals :
          /\ user_flag[c] = 1
          /\ Cardinality(QualifyingObs(full, c)) = 2
          /\ FitFails(full, c)
          /\ user_flag[d] = 1
          /\ Cardinality(QualifyingObs(full, d)) = 1
          /\ osf[c] = old_osfs[c] /\ osf[d] = old_osfs[d]
          /\ Bfac[c] = Zero /\ Bfac[d] = Zero
          /\ user_flag[e] = 0
          /\ osf[e] # old_osfs[e]

\* C22: the flag reset rule.  The initialisation loop and the start of a
\* macrocycle give a crystal with flag 1 the flag 0, and the scale job of
\* that macrocycle fits it; a crystal with any other non-zero flag keeps
\* that flag in every step, its scale job changes nothing, and it is never
\* inside the loop of a merge or an ESD job.
FlagResetRule ==
    /\ [][(pc \in {"start", "cycle_begin"} /\ pc' # pc) =>
             \A c \in Crystals : user_flag[c] = 1 => user_flag'[c] = 0]_vars
    /\ [][\A c \in Crystals :
             user_flag[c] \notin {0, 1} => user_flag'[c] = user_flag[c]]_vars
    /\ [][\A w \in Threads :
             (/\ wk[w].pc = "scale"
              /\ wk'[w].pc = "idle"
              /\ user_flag[wk[w].cr] \notin {0, 1})
             => crystal_vars' = crystal_vars]_vars
    /\ [](\A w \in Threads :
             wk[w].pc \in (MergePcs \cup EsdPcs) \ {"merge", "esd"}
             => user_flag[wk[w].cr] = 0)

\* C23, as stated: after the initialisation loop and before the first merge
\* every crystal has G = 1.0, B = 0.0 and flag 0
InitialisedAll ==
    pc = "init_done" =>
        \A c \in Crystals :
            osf[c] = One /\ Bfac[c] = Zero /\ user_flag[c] = 0

\* C23: initialisation.  The initialisation loop gives every crystal,
\* whatever its state on entry, G = 1.0 and B = 0.0, gives a crystal that
\* entered with flag 0 or 1 the flag 0, and leaves any other flag as it
\* was; this is the state in which the first merge starts.
Initialised ==
    /\ [][pc = "start" /\ pc' # pc =>
             /\ pc' = "init_done"
             /\ \A c \in Crystals :
                   /\ osf'[c] = One
                   /\ Bfac'[c] = Zero
                   /\ user_flag'[c] =
                          IF user_flag[c] \in {0, 1} THEN 0 ELSE user_flag[c]]_vars
    /\ [][pc = "init_done" /\ pc' # pc =>
             /\ phase' = "merge"
             /\ crystal_vars' = crystal_vars
             /\ \A c \in Crystals :
                   osf[c] = One /\ Bfac[c] = Zero /\ user_flag[c] # 1]_vars

\* the first merge starts on three crystals after the initialisation loop:
\* one has kept its flag 2, the others have flag 0
InitialisedWitness ==
    /\ pc = "lsq_wait"
    /\ caller \in {"initial", "noscale"}
    /\ n_started = 0
    /\ n = 3
    /\ \E c, d \in Crystals : user_flag[c] = 2 /\ user_flag[d] = 0
    /\ \A c \in Crystals : osf[c] = One /\ Bfac[c] = Zero

\* C24: when scale_intensities returns with scaling enabled, every crystal
\* with flag 0 has a finite G strictly greater than 0 and a finite B
ReturnedScalesFinite ==
    pc = "returned" /\ ~noscale =>
        \A c \in Crystals :
            user_flag[c] = 0 =>
                /\ IsFinite(osf[c])
                /\ DGt(osf[c], Zero)
                /\ IsFinite(Bfac[c])

\* C25: no_scale mode.  With noscale set, scale_intensities goes through
\* the initialisation loop, one merge and one ESD pass, in this order and
\* each once, and returns: no scale job, no outlier rejection, no
\* normalisation and no convergence test runs; no crystal is flagged (the
\* only change of a flag is the reset of flag 1 by the initialisation
\* loop); and from the initialisation loop to the return every crystal has
\* G = 1.0 and B = 0.0.
NoScaleMode ==
    /\ [](noscale =>
             /\ pc \in {"start", "init_done", "lsq_wait", "esds", "esd_wait",
                        "returned"}
             /\ phase \in {"none", "merge", "esd"}
             /\ caller \in {"none", "noscale"}
             /\ \A w \in Threads : wk[w].pc # "scale"
             /\ ~warned)
    /\ [](noscale /\ pc # "start" =>
             \A c \in Crystals : osf[c] = One /\ Bfac[c] = Zero)
    /\ [][noscale /\ pc' # pc =>
             <<pc, pc'>> \in {<<"start", "init_done">>,
                              <<"init_done", "lsq_wait">>,
                              <<"lsq_wait", "esds">>,
                              <<"esds", "esd_wait">>,
                              <<"esd_wait", "returned">>}]_vars
    /\ [][noscale /\ phase' # phase =>
             <<pc, phase, pc', phase'>> \in
                 {<<"init_done", "none", "lsq_wait", "merge">>,
                  <<"lsq_wait", "merge", "esds", "none">>,
                  <<"esds", "none", "esd_wait", "esd">>,
                  <<"esd_wait", "esd", "returned", "none">>}]_vars
    /\ [][noscale =>
             \A c \in Crystals :
                 \/ user_flag'[c] = user_flag[c]
                 \/ pc = "start" /\ user_flag[c] = 1 /\ user_flag'[c] = 0]_vars

\* scale_intensities has returned in no_scale mode from three crystals, one
\* of them flagged, with a merged and suppressed list
NoScaleModeWitness ==
    /\ noscale
    /\ pc = "returned"
    /\ n = 3
    /\ \E c, d \in Crystals : user_flag[c] = 2 /\ user_flag[d] = 0
    /\ \E k \in Keys : full[k] # <<>> /\ full[k][1].redundancy >= 2
    /\ \A c \in Crystals : osf[c] = One /\ Bfac[c] = Zero

\* the observations <<c, j>> that a merge of the crystals as they are now
\* takes from the equivalents of key k
EquivalentObs(k) ==
    {cj \in Crystals \X (1 .. 2) :
        /\ user_flag[cj[1]] = 0
        /\ cj[2] <= Len(refl[cj[1]])
        /\ get_asymm(refl[cj[1]][cj[2]].key) = get_asymm(k)
        /\ ~DLt(refl[cj[1]][cj[2]].p, MIN_PART_MERGE)}

RefinesAllButOne ==
    [][pr_pc = "pr_iterate" /\ pr_pc' = "pr_update" =>
          \E excluded \in RefParams :
              /\ image'.par[excluded] = image.par[excluded]
              /\ \A k \in RefParams \ {excluded} :
                    /\ k \in DOMAIN shifts'
                    /\ image'.par[k] = DAdd(image.par[k], shifts'[k])]_vars

\* the image is flagged as rejected for this cycle; no statement of
\* pr_iterate or pr_refine leads here
PrRejected == pr_pc = "pr_rejected"

\* C28: post-refinement failure handling.  When the linear solve of a call
\* of pr_iterate fails, or a shift it computed is not finite, the image's
\* parameters after the call are those before it and the image is flagged
\* as rejected.
PrFailureReverts ==
    [][(/\ pr_pc = "pr_iterate"
        /\ pr_pc' # pr_pc
        /\ \/ pr_pc' = "pr_aborted"
           \/ \E k \in DOMAIN shifts' : ~IsFinite(shifts'[k]))
       => image'.par = image.par /\ PrRejected']_vars

\* C29: pr_refine terminates after at least one and at most MAX_CYCLES
\* iterations.  The iteration counter stays within 0 .. MAX_CYCLES and
\* never goes down, pr_iterate is called only while it is below
\* MAX_CYCLES, every iteration that was not aborted raises it by one,
\* pr_refine returns only after at least one iteration, nothing happens
\* after the return, and an iteration whose maximum absolute shift is
\* below 0.01 is the last.
PrRefineTerminates ==
    /\ [](pr_i \in 0 .. MAX_CYCLES_PR)
    /\ [](pr_pc = "pr_iterate" => pr_i < MAX_CYCLES_PR)
    /\ [](pr_pc = "pr_returned" => pr_i >= 1)
    /\ [][pr_i' >= pr_i]_vars
    /\ [][pr_pc = "pr_update" => pr_i' = pr_i + 1]_vars
    /\ [][(pr_pc \in {"pr_returned", "pr_aborted"}) =>
             pr_vars' = pr_vars]_vars
    /\ [][pr_pc = "pr_update" /\ DLt(max_shift, SHIFT_LIMIT) =>
             pr_pc' = "pr_returned"]_vars
    /\ [][pr_pc = "pr_update" /\ pr_pc' = "pr_iterate" =>
             DGt(max_shift, SHIFT_LIMIT)]_vars

\* pr_refine has returned before MAX_CYCLES, after more than one iteration,
\* the last of which had a maximum shift below 0.01; the refined parameter
\* has moved
PrRefineTerminatesWitness ==
    /\ pr_pc = "pr_returned"
    /\ pr_i > 1
    /\ pr_i < MAX_CYCLES_PR
    /\ DLt(max_shift, SHIFT_LIMIT)
    /\ image.par[0] # One

(***************************************************************************)
(* Properties of the rational number library                               *)
(***************************************************************************)

\* x fits signed long long int
FitsLong(x) == Wrap(x, LongBits) = x

\* the exact numerator or denominator of the result of the call, or an
\* exact intermediate product or sum, does not fit signed long long int
ExactOverflow ==
    LET a == rt.a
        b == rt.b
    IN  CASE rt.op = "rtnl_mul" ->
                 ~FitsLong(a.num * b.num) \/ ~FitsLong(a.den * b.den)
          [] rt.op = "rtnl_div" ->
                 ~FitsLong(a.num * b.den) \/ ~FitsLong(a.den * b.num)
          [] rt.op = "rtnl_add" ->
                 \/ ~FitsLong(a.num * b.den)
                 \/ ~FitsLong(b.num * a.den)
                 \/ ~FitsLong(a.den * b.den)
                 \/ ~FitsLong(a.num * b.den + b.num * a.den)
          [] rt.op = "rtnl_sub" ->
                 \/ ~FitsLong(a.num * b.den)
                 \/ ~FitsLong(b.num * a.den)
                 \/ ~FitsLong(a.den * b.den)
                 \/ ~FitsLong(a.num * b.den - b.num * a.den)
          [] OTHER -> FALSE

\* C30: an operation of rtnl_mul, rtnl_div, rtnl_add and rtnl_sub whose
\* exact numerator, denominator or intermediate product or sum does not fit
\* the integer type never returns: it aborts
OverflowAborts == rt.pc = "returned" => ~ExactOverflow

\* the greatest common divisor of two naturals
RECURSIVE Gcd(_, _)
Gcd(x, y) == IF y = 0 THEN x ELSE Gcd(y, x % y)

\* r is in canonical form: positive denominator, no common factor, zero
\* as 0/1
Canonical(r) ==
    /\ r.den > 0
    /\ Gcd(Abs(r.num), r.den) = 1
    /\ r.num = 0 => r.den = 1

\* the operands of the call have non-zero denominators, and the divisor of
\* rtnl_div is not zero
OperandsValid ==
    CASE rt.op = "rtnl" -> rt.b.num # 0
      [] rt.op = "rtnl_div" -> rt.a.den # 0 /\ rt.b.den # 0 /\ rt.b.num # 0
      [] OTHER -> rt.a.den # 0 /\ rt.b.den # 0

\* C40: a Rational returned by rtnl, rtnl_add, rtnl_sub, rtnl_mul or
\* rtnl_div for valid operands is in canonical form
CanonicalForm ==
    rt.pc = "returned" /\ OperandsValid => Canonical([num |-> rt.r.num, den |-> rt.r.den])

(***************************************************************************)
(* Properties of the rational matrices                                     *)
(***************************************************************************)

\* the determinant of a matrix of integers, by expansion along row 0
RECURSIVE IntDet(_)
IntDet(m) ==
    LET term(j) == (IF j % 2 = 1 THEN -1 ELSE 1)
                   * rtnl_mtx_get(m, rtnl_zero, 0, j).num
                   * IntDet(delete_row_and_column(m, 0, j))
        sum[j \in 0 .. m.cols] == IF j = 0 THEN 0 ELSE sum[j - 1] + term(j - 1)
    IN  IF m.rows = 0 THEN 1 ELSE sum[m.cols]

\* a and b are the same number
RtnlEq(a, b) == a.den # 0 /\ b.den # 0 /\ a.num * b.den = b.num * a.den

\* the call of rtnl_mtx_solve on a square matrix has returned
SolveReturned ==
    /\ rt.op = "rtnl_mtx_solve"
    /\ rt.pc = "mtx_returned"
    /\ rt.m.rows = rt.m.cols

\* C39: every element access of rtnl_mtx_solve has its row in [0, rows) and
\* its column in [0, cols), and the elimination loop is left with h and k
\* no larger than rows + 1 and cols + 1
SolveIndexSafe ==
    rt.op = "rtnl_mtx_solve" =>
        /\ rt.safe
        /\ rt.h <= rt.m.rows + 1 /\ rt.k <= rt.m.cols + 1

\* C33: rtnl_mtx_solve returns non-zero when m is not square and when m is
\* singular, and where it returns 0, ans is the solution: m*ans = vec
SolveReportsSingular ==
    rt.op = "rtnl_mtx_solve" /\ rt.pc = "mtx_returned" =>
        /\ (rt.m.rows # rt.m.cols \/ IntDet(rt.m) = 0) => rt.ret # 0
        /\ rt.ret = 0 =>
              \A ir \in 1 .. rt.m.rows :
                 \E sum \in {MultSum("wrap", rt.m, rt.ans, ir - 1, rt.m.cols)} :
                    sum.status = "ok" /\ RtnlEq(sum, rt.vec[ir])

\* C31: where no arithmetic overflows, rtnl_mtx_solve on a non-singular
\* square matrix m of integers and on rtnl_mtx_mult(m, x) returns 0 and
\* writes x into ans
SolveRoundTrip ==
    SolveReturned /\ rt.x # <<>> /\ rt.build = "trap" /\ IntDet(rt.m) # 0 =>
        /\ rt.ret = 0
        /\ \A ir \in 1 .. rt.m.rows : RtnlEq(rt.ans[ir], rt.x[ir])

\* C32: where no arithmetic overflows, rtnl_mtx_det is the determinant, and
\* rtnl_mtx_det of a product is the product of the two rtnl_mtx_det
DetMultiplicative ==
    rt.op = "rtnl_mtx_det" /\ rt.pc = "mtx_returned" /\ rt.build = "trap" =>
        /\ RtnlEq(rt.r.det_m, [num |-> IntDet(rt.m), den |-> 1])
        /\ rt.r.det_mB.den # 0
        /\ rt.r.det_mB.num * rt.r.det_m.den * rt.r.det_B.den
              = rt.r.det_m.num * rt.r.det_B.num * rt.r.det_mB.den

(***************************************************************************)
(* Properties of partial_sim                                               *)
(***************************************************************************)

\* the entries of the reference list of partial_sim
PsHandles == UNION {{<<k, j>> : j \in 1 .. Len(sim.full[k])} : k \in Keys}

\* C35: with random intensities the creation of a full reflection is atomic:
\* no indices are added to `full` twice, set_int is called once on every
\* entry, before full_lock is released, and an intensity that was set never
\* changes
AtomicCreation ==
    /\ [](sim.pc = "run_threads" /\ sim.random_intensities =>
             /\ \A k \in Keys : Len(sim.full[k]) <= 1
             /\ \A a, b \in DOMAIN sim.sets : sim.sets[a] = sim.sets[b] => a = b
             /\ sim.full_lock = 0 =>
                   \A f \in PsHandles : \E a \in DOMAIN sim.sets : sim.sets[a] = f)
    /\ [][sim.pc = "run_threads" /\ sim.random_intensities =>
             \A a \in DOMAIN sim.sets :
                Entry(sim.full, sim.sets[a]).intensity
                    = Entry(sim.full', sim.sets[a]).intensity]_vars

(***************************************************************************)
(* Further properties of scale_intensities                                 *)
(***************************************************************************)

\* C34: the assertion of run_esd_job never fails: while the ESD jobs run,
\* every observation with partiality of at least MIN_PART_MERGE of every
\* crystal with flag 0 has an entry in the reference list
EsdAssertionHolds ==
    /\ \A w \in Threads : wk[w].pc # "assert_failed"
    /\ phase = "esd" =>
          \A c \in Crystals :
              user_flag[c] = 0 =>
                  \A j \in 1 .. Len(refl[c]) :
                      ~DLt(refl[c][j].p, MIN_PART_MERGE) =>
                          full[refl[c][j].key] # <<>>

\* an ESD job has passed the assertion for an observation, while another
\* crystal is flagged
EsdAssertionHoldsWitness ==
    /\ \E w \in Threads : wk[w].pc = "e_lock"
    /\ \E c \in Crystals : user_flag[c] # 0

\* the steps of one pass of the loop of run_merge_job, in program order
MergeSteps ==
    <<"m_unlock_refl", "m_set", "m_get", "m_unlock", "m_lock", "m_find2",
      "m_wrlock", "m_swap", "m_find", "m_loop">>

\* the steps merge worker w has left at most before its job returns
MergeLeft(w) ==
    LET len == Len(refl[wk[w].cr])
        passes == Len(MergeSteps) + 1
    IN  IF wk[w].pc = "merge" THEN passes * (len + 2)
        ELSE IF \E r \in DOMAIN MergeSteps : MergeSteps[r] = wk[w].pc
        THEN passes * (len + 1 - wk[w].it)
             + (CHOOSE r \in DOMAIN MergeSteps : MergeSteps[r] = wk[w].pc)
        ELSE 0

RECURSIVE SumMergeLeft(_)
SumMergeLeft(w) == IF w = 0 THEN 0 ELSE MergeLeft(w) + SumMergeLeft(w - 1)

\* the steps the merge phase has left at most: those of the running jobs
\* and those of the jobs not yet created
MergeMeasure ==
    SumMergeLeft(MaxThreads) + (n - n_started) * (1 + 5 * (Len(MergeSteps) + 1))

\* merge worker w waits for a lock another worker holds
MergeBlocked(w) ==
    \/ /\ wk[w].pc = "m_loop"
       /\ wk[w].it <= Len(refl[wk[w].cr])
       /\ ~DLt(Obs(w).p, MIN_PART_MERGE)
       /\ full_lock.writer # 0
    \/ /\ wk[w].pc = "m_wrlock"
       /\ full_lock.readers # {} \/ full_lock.writer # 0
    \/ /\ wk[w].pc = "m_lock"
       /\ ~LockFree(full, wk[w].f)

\* worker w holds the read or the write lock of the table
HoldsTable(w) == w \in full_lock.readers \/ full_lock.writer = w

\* the entries whose lock worker w holds
HeldEntries(w) ==
    {f \in Keys \X (1 .. 2) :
        f[2] <= Len(full[f[1]]) /\ Entry(full, f).lock = w}

\* C36: the merge phase is deadlock-free.  While the merge jobs run, some
\* worker can always take a step (a job that is not waiting for a lock, or
\* a job to create), every step of a worker brings the phase nearer to its
\* end, a worker holds the table's lock and an entry's lock exactly in the
\* parts of run_merge_job between taking and releasing them, a lock is
\* released only by its holder, and no lock is held when the phase ends.
MergeDeadlockFree ==
    /\ [](phase = "merge" /\ ~PoolDone =>
            \/ \E w \in Threads : wk[w].pc \in MergePcs /\ ~MergeBlocked(w)
            \/ \E w \in Threads : MayCreate(w, "merge"))
    /\ [][phase = "merge" /\ wk' # wk =>
            MergeMeasure' < MergeMeasure /\ MergeMeasure' >= 0]_vars
    /\ [](phase = "merge" =>
            \A w \in Threads :
                /\ HoldsTable(w) <=>
                      wk[w].pc \in {"m_find", "m_swap", "m_find2", "m_lock",
                                    "m_unlock"}
                /\ HeldEntries(w) =
                      IF wk[w].pc \in {"m_unlock", "m_get", "m_set",
                                       "m_unlock_refl"}
                      THEN {wk[w].f} ELSE {})
    /\ [][phase = "merge" =>
            \A w \in Threads :
                /\ HoldsTable(w) /\ ~HoldsTable(w)' =>
                      wk[w].pc \in {"m_swap", "m_unlock"}
                      /\ wk'[w].pc # wk[w].pc
                /\ HeldEntries(w) # {} /\ HeldEntries(w)' = {} =>
                      wk[w].pc = "m_unlock_refl" /\ wk'[w].pc = "m_loop"]_vars
    /\ [](phase = "merge" /\ PoolDone =>
            /\ full_lock = [readers |-> {}, writer |-> 0]
            /\ \A w \in Threads : HeldEntries(w) = {} /\ wk[w].pc = "idle")

\* a worker that holds the read lock of the table waits for the lock of an
\* entry that another worker holds
MergeDeadlockFreeWitness ==
    \E v, w \in Threads :
        /\ wk[v].pc = "m_lock" /\ HoldsTable(v) /\ MergeBlocked(v)
        /\ wk[w].pc \in {"m_get", "m_set"}
        /\ wk[w].f = wk[v].f

\* C37: scale bounds hold for everything that is merged.  While a merge of
\* the scaling loop runs, every crystal with flag 0 has G in (0, 10] and
\* |B| within the limit.
MergedScalesInRange ==
    phase = "merge" /\ caller = "cycle" =>
        \A c \in Crystals :
            user_flag[c] = 0 =>
                InOsfRange(osf[c]) /\ DLe(fabs(Bfac[c]), BFAC_MAX)

\* every crystal is flagged
AllFlagged == NUnflagged = 0

\* the reference list has no entry
EmptyList == \A k \in Keys : full[k] = <<>>

\* C38: all-rejected is absorbing.  When every crystal is flagged after the
\* outlier rejection of a macrocycle, convergence is not declared in it, the
\* merge of that macrocycle gives an empty list, the list is the reference
\* of the next macrocycle unchanged, against an empty reference every
\* crystal is flagged again, the loop goes on until i is MAX_CYCLES, and the
\* list returned is empty.
AllRejectedAbsorbing ==
    /\ [](pc \in {"remerge", "cycle_end"} /\ AllFlagged => ~done)
    /\ [](pc = "cycle_end" /\ AllFlagged => EmptyList)
    /\ [][(pc \in {"cycle_end", "cycle_begin", "scale_wait", "reject",
                   "normalise", "converge"}) => full' = full]_vars
    /\ [](pc \in {"normalise", "converge", "remerge"} /\ EmptyList
            => AllFlagged)
    /\ [][pc = "cycle_end" /\ AllFlagged =>
            /\ i' = i + 1
            /\ pc' = IF i' < MAX_CYCLES THEN "cycle_begin" ELSE "esds"]_vars
    /\ [](pc \in {"esds", "esd_wait", "returned"} /\ ~noscale /\ AllFlagged
            => i = MAX_CYCLES /\ EmptyList)
    /\ [](pc = "normalise" /\ AllFlagged
            => [](pc \in {"normalise", "returned"} /\ ~noscale => AllFlagged))

\* scale_intensities has returned after MAX_CYCLES macrocycles with every
\* crystal flagged by the scaling
AllRejectedAbsorbingWitness ==
    /\ pc = "returned"
    /\ ~noscale
    /\ i = MAX_CYCLES
    /\ EmptyList
    /\ \A c \in Crystals : user_flag[c] = 1

=============================================================================
